---------------------------- MODULE Spec2Model ----------------------------
(***************************************************************************)
(* Model of walmart_automation_clean.py: the batch driver (main,           *)
(* apply_to_job and the nine step functions) and the field resolver of     *)
(* step 7 (is_dropdown_filled, fill_question_by_pattern, the auto-fill     *)
(* pass).  The web page is the environment: what it contains and which     *)
(* page operation raises are nondeterministic inputs of the actions.       *)
(***************************************************************************)
EXTENDS Integers, Sequences, FiniteSets, TLC

VARIABLES
    \* ---- batch driver (module globals and the locals of apply_to_job) ----
    configured,              \* WORKDAY_URL, WORKDAY_USER and WORKDAY_PASS are all set
    JOB_IDS,                 \* the list the loader produced (line 16)
    SUCCESSFUL_SUBMISSIONS,  \* line 24
    FAILED_SUBMISSIONS,      \* line 25
    INCOMPLETE_SUBMISSIONS,  \* line 26
    idx,                     \* position of main's for loop in JOB_IDS (1-based)
    pc,                      \* where the single thread of control is
    browser,                 \* "none" | "open" | "closed": the session of the current job
    submission_successful,   \* local of apply_to_job
    application_completed,   \* local of apply_to_job
    button_clicked,          \* local of step_4_click_apply
    step4_ret,               \* "pending" | "None" | "False": what step_4_click_apply returned
    submit_clicked,          \* local of step_9_review_and_submit
    s9,                      \* what step 9 met: "pending" | "none_visible" | "clicked" | "raised"
    raised,                  \* where this job's exception was raised, "none" if none
    ran,                     \* the steps started for the current job
    search_runs,             \* calls of step_3_search_job for the current job
    calls,                   \* the step functions called for the current job, in order
    apply_lookups,           \* passes over apply_selectors in step 4 of the current job
    clicks,                  \* Apply/Continue and submit controls clicked in this job
    step4_first,             \* what the first pass over apply_selectors met
    timed_out,               \* a wait for network idle has timed out in the current job
    shot_failed,             \* page.screenshot has raised in the current job
    caught,                  \* a step's own try/except has caught a page operation's exception
    \* ---- the world outside the process ----
    trace,                   \* browser sessions and the two delays, in the order they happened
    job_result,              \* the lines of job_result.txt; <<>> while there is no file
    backups,                 \* the time stamps of the backup copies in logs/
    \* ---- step 7 on one Application Questions page ----
    page,                    \* the DOM: the elements in document order
    fpc,                     \* where step_7_application_questions is
    m,                       \* index of the next entry of question_mappings
    questions_filled,        \* local of step_7_application_questions
    empty_dropdowns_found,   \* local of step_7_application_questions
    filled_count,            \* local of the auto-fill pass
    af,                      \* the auto-fill loops: selector s, index i, count cnt
    s7,                      \* what step 7 met: the page's heading, the Save and Continue button
    s8,                      \* step 8: all_dropdowns, max_voluntary and the loop index i
    ops,                     \* the page operations of the current job, in order
    last                     \* record of the last resolver call or loop pass

wf_vars == <<configured, JOB_IDS, SUCCESSFUL_SUBMISSIONS, FAILED_SUBMISSIONS,
             INCOMPLETE_SUBMISSIONS, idx, pc, browser, submission_successful,
             application_completed, button_clicked, step4_ret, submit_clicked,
             s9, raised, ran, search_runs, calls, apply_lookups, clicks, step4_first,
             timed_out, shot_failed, caught, trace, job_result, backups>>

form_vars == <<page, fpc, m, questions_filled, empty_dropdowns_found,
               filled_count, af, s7, s8, ops, last>>

vars == <<wf_vars, form_vars>>

-----------------------------------------------------------------------------
(* Bounds *)

MaxJobs == 2

JobIdSet == {"101", "102"}

\* every list of at most n job ids; the loader keeps duplicates (line 16)
RECURSIVE SeqsUpTo(_)
SeqsUpTo(n) ==
    IF n = 0 THEN {<<>>}
    ELSE LET shorter == SeqsUpTo(n - 1)
         IN  shorter \cup {Append(s, j) : s \in {t \in shorter : Len(t) = n - 1}, j \in JobIdSet}

RECURSIVE Count(_, _)
Count(x, s) == IF s = <<>> THEN 0
               ELSE (IF Head(s) = x THEN 1 ELSE 0) + Count(x, Tail(s))

job_id == JOB_IDS[idx]

-----------------------------------------------------------------------------
(* Python string operations, computed on TLC strings *)

\* the value of a one-element set; {e} binds the value of e once
The(S) == CHOOSE x \in S : TRUE

Min(S) == CHOOSE x \in S : \A y \in S : x <= y

UpperCase == "ABCDEFGHIJKLMNOPQRSTUVWXYZ"
LowerCase == "abcdefghijklmnopqrstuvwxyz"

Char(s, i) == SubSeq(s, i, i)

LowerMap ==
    [c \in {Char(UpperCase, i) : i \in 1..Len(UpperCase)} |->
        Char(LowerCase, CHOOSE i \in 1..Len(UpperCase) : Char(UpperCase, i) = c)]

\* str.lower()
RECURSIVE lower(_)
lower(s) ==
    IF Len(s) = 0 THEN ""
    ELSE IF Len(s) = 1 THEN (IF s \in DOMAIN LowerMap THEN LowerMap[s] ELSE s)
    ELSE LET half == Len(s) \div 2
         IN  lower(SubSeq(s, 1, half)) \o lower(SubSeq(s, half + 1, Len(s)))

\* sub in s; the empty string is in every string
Contains(sub, s) ==
    \E i \in 1..(Len(s) - Len(sub) + 1) : SubSeq(s, i, i + Len(sub) - 1) = sub

IsSpace(c) == c \in {" ", "\t", "\n"}

\* str.strip()
RECURSIVE strip(_)
strip(s) ==
    IF Len(s) = 0 THEN ""
    ELSE IF IsSpace(Char(s, 1)) THEN strip(SubSeq(s, 2, Len(s)))
    ELSE IF IsSpace(Char(s, Len(s))) THEN strip(SubSeq(s, 1, Len(s) - 1))
    ELSE s

\* str.split(): the maximal runs of non-space characters
RECURSIVE split(_)
split(s) ==
    The({ IF Len(t) = 0 THEN <<>>
          ELSE The({ <<SubSeq(t, 1, cut - 1)>> \o split(The({SubSeq(t, cut, Len(t))})) :
                     cut \in {Min({i \in 1..Len(t) : IsSpace(Char(t, i))} \cup {Len(t) + 1})} })
          : t \in {strip(s)} })

\* s[:n]
Prefix(s, n) == SubSeq(s, 1, IF Len(s) < n THEN Len(s) ELSE n)


-----------------------------------------------------------------------------
(* The page.  An element is a record; the page lists its elements in        *)
(* document order, an element before its descendants.  Field q is not read  *)
(* by the program: it names the question an element belongs to.             *)

Elem(parent, tag, text) ==
    [parent |-> parent, tag |-> tag, text |-> text, visible |-> TRUE,
     role |-> "", haspopup |-> "", expanded |-> FALSE, value |-> "",
     options |-> <<>>, q |-> 0]

\* the text of a question: a label, a legend or a fieldset
QText(parent, tag, text, q) == [Elem(parent, tag, text) EXCEPT !.q = q]

\* a dropdown as the portal renders it: <button aria-haspopup="listbox">
Dropdown(parent, shown, options, q) ==
    [Elem(parent, "button", shown) EXCEPT !.haspopup = "listbox",
                                          !.options = options, !.q = q]

ElemIds(pg) == 1..Len(pg)

\* xpath=ancestor::*[level]; 0 when there is no such ancestor
RECURSIVE Ancestor(_, _, _)
Ancestor(pg, n, level) ==
    IF n = 0 \/ level = 0 THEN n ELSE Ancestor(pg, pg[n].parent, level - 1)

RECURSIVE Within(_, _, _)
Within(pg, n, c) ==
    IF n = 0 THEN FALSE ELSE IF n = c THEN TRUE ELSE Within(pg, pg[n].parent, c)

Subtree(pg, c) == {n \in ElemIds(pg) : Within(pg, n, c)}

RECURSIVE JoinText(_, _, _)
JoinText(pg, S, n) ==
    IF n > Len(pg) THEN ""
    ELSE The({ IF n \in S /\ Len(pg[n].text) > 0
               THEN (IF Len(rest) = 0 THEN pg[n].text ELSE pg[n].text \o " " \o rest)
               ELSE rest
               : rest \in {JoinText(pg, S, n + 1)} })

\* the text :has-text() looks at: all the text inside the element
TextContent(pg, c) == The({JoinText(pg, S, 1) : S \in {Subtree(pg, c)}})

\* element.inner_text(): the rendered text inside the element
inner_text(pg, c) ==
    The({JoinText(pg, S, 1) : S \in {{n \in Subtree(pg, c) : pg[n].visible}}})

\* :has-text("t"): case-insensitive substring of the element's text
HasText(pg, n, t) ==
    \E sub \in {lower(t)}, low \in {lower(TextContent(pg, n))} : Contains(sub, low)

\* dropdown_selectors (lines 375-382) and, from the seventh on, the two more
\* of all_dropdown_selectors (lines 688-697) and of lines 578-587
DropdownSelectorCount == 6
AllDropdownSelectorCount == 8

MatchesDropdownSelector(pg, n, k) ==
    CASE k = 1 -> pg[n].role = "combobox"
      [] k = 2 -> pg[n].tag = "select"
      [] k = 3 -> pg[n].haspopup = "listbox"
      [] k = 4 -> pg[n].tag = "button" /\ pg[n].expanded
      [] k = 5 -> pg[n].tag = "button" /\ pg[n].haspopup = "listbox"
      [] k = 6 -> pg[n].tag = "button" /\ HasText(pg, n, "Select One")
      [] k = 7 -> pg[n].tag = "button" /\ HasText(pg, n, "Choose")
      [] OTHER -> pg[n].tag = "button" /\ HasText(pg, n, "Please select")

\* container.locator(selector): the matching descendants, in document order
Located(pg, c, k) ==
    {n \in Subtree(pg, c) \ {c} : MatchesDropdownSelector(pg, n, k)}

\* page.locator(selector)
LocatedOnPage(pg, k) == {n \in ElemIds(pg) : MatchesDropdownSelector(pg, n, k)}

\* locator.first; 0 when nothing matches
First(S) == IF S = {} THEN 0 ELSE Min(S)

\* locator.nth(i), i from 0; 0 when there is no such match
Nth(S, i) == IF i >= Cardinality(S) THEN 0
             ELSE CHOOSE n \in S : Cardinality({x \in S : x < n}) = i

Dropdowns(pg) ==
    {n \in ElemIds(pg) : \E k \in 1..AllDropdownSelectorCount :
                            MatchesDropdownSelector(pg, n, k)}

\* the first option of dropdown d's open popup that [role="option"]:has-text(t)
\* matches; 0 when none does
FirstOption(pg, d, t) ==
    The({ First({i \in 1..Len(pg[d].options) : Contains(sub, lower(pg[d].options[i]))})
          : sub \in {lower(t)} })

\* the first element of the page itself that tag:has-text(t) matches
FirstStatic(pg, tag, t) ==
    First({n \in ElemIds(pg) : pg[n].tag = tag /\ HasText(pg, n, t)})

\* clicking option i of dropdown d's popup: the dropdown now shows the option
Select(pg, d, i) == [pg EXCEPT ![d].text = pg[d].options[i]]

-----------------------------------------------------------------------------
(* step 7: is_dropdown_filled *)

\* lines 308-311
empty_indicators ==
    <<"select one", "select an", "choose", "please select",
      "-- select", "select...", "click to select", "">>

MinFilledTextLen == 15

\* is_dropdown_filled, lines 301-331, of a dropdown whose inner_text() is text
\* and whose value attribute is value ("" when it has none)
is_dropdown_filled(text, value) ==
    \E dropdown_text \in {lower(text)} :
        IF \E k \in 1..Len(empty_indicators) :
              Contains(empty_indicators[k], dropdown_text)
        THEN FALSE
        ELSE IF Len(strip(value)) > 0 /\ value \notin {"", "0", "-1"}
        THEN TRUE
        ELSE IF Len(strip(dropdown_text)) > MinFilledTextLen
        THEN TRUE
        ELSE FALSE

Filled(pg, d) == is_dropdown_filled(inner_text(pg, d), pg[d].value)

-----------------------------------------------------------------------------
(* step 7: fill_question_by_pattern *)

\* lines 358-359
nav_terms == <<"skip to main", "search for jobs", "candidate home", "settings",
               "english", "español">>

\* lines 363-364
question_words == <<"?", "select", "certify", "work", "status", "category",
                    "experience">>

QuestionTextLen == 150
MinQuestionLen == 10
MinPartialWordLen == 3
AncestorLevels == 3

\* lines 355-359: the element's text names a navigation element
IsNavigation(question_text) ==
    \E low \in {lower(question_text)} :
        \E k \in 1..Len(nav_terms) : Contains(nav_terms[k], low)

\* lines 363-364: the element's text looks like a form question
IsFormQuestion(question_text) ==
    /\ Len(strip(question_text)) > MinQuestionLen
    /\ \E low \in {lower(question_text)} :
          \E k \in 1..Len(question_words) : Contains(question_words[k], low)

\* lines 339-343 and 349-353: the elements of the three question selectors,
\* selector by selector, each in document order
QuestionTags == <<"fieldset", "legend", "label">>

RECURSIVE InOrder(_)
InOrder(S) == IF S = {} THEN <<>> ELSE <<Min(S)>> \o InOrder(S \ {Min(S)})

QuestionElements(pg, pattern_text) ==
    LET of(k) == InOrder({n \in ElemIds(pg) : /\ pg[n].tag = QuestionTags[k]
                                              /\ HasText(pg, n, pattern_text)})
    IN  of(1) \o of(2) \o of(3)

\* lines 354-364: the first element the loops do not pass over.  An invisible
\* or navigation element is skipped; for a text that is no form question the
\* handler of lines 447-494 runs, whose first lookup
\* (xpath=following-sibling::role="combobox") is not a node-set expression:
\* the lookup raises and the except of line 496 goes on to the next element.
RECURSIVE FirstValidQuestion(_, _)
FirstValidQuestion(pg, elems) ==
    IF elems = <<>> THEN 0
    ELSE The({ IF /\ pg[Head(elems)].visible
                  /\ ~IsNavigation(question_text)
                  /\ IsFormQuestion(question_text)
               THEN Head(elems)
               ELSE FirstValidQuestion(pg, The({Tail(elems)}))
               : question_text \in {Prefix(inner_text(pg, Head(elems)), QuestionTextLen)} })

\* lines 444-494: the elements for which the handler for a text that is no
\* form question runs, up to the first element that is one
RECURSIVE WeakMatches(_, _)
WeakMatches(pg, elems) ==
    IF elems = <<>> THEN <<>>
    ELSE The({ IF ~pg[Head(elems)].visible \/ IsNavigation(question_text)
               THEN WeakMatches(pg, The({Tail(elems)}))
               ELSE IF IsFormQuestion(question_text) THEN <<>>
               ELSE <<Head(elems)>> \o WeakMatches(pg, The({Tail(elems)}))
               : question_text \in {Prefix(inner_text(pg, Head(elems)), QuestionTextLen)} })

\* lines 447-494, the handler for a matched text that is no form question.
\* Line 463 makes its XPath from the CSS selector by deleting the brackets:
\* for '[role="combobox"]', the first selector, that is
\* following-sibling::role="combobox", a comparison and no node set.  The
\* count() of line 464 raises on it, outside the try of line 469, and the
\* except of line 496 goes on with the next element: the handler opens no
\* dropdown and selects nothing.
weak_match_handler(pg, question_element) ==
    [raised |-> TRUE, page |-> pg, opened |-> <<>>, picked |-> <<>>]

RECURSIVE Concat(_)
Concat(ss) == IF ss = <<>> THEN <<>> ELSE Head(ss) \o Concat(Tail(ss))

\* the two ends of an attempt in which a click raised (lines 434-439)
Raised == {"raised_open", "raised_pick"}

\* a partial tier that picks nothing
NoPartialOption(pg, d, words) == 0

\* lines 421-429: the first option the partial tier picks; 0 if none
RECURSIVE PartialOption(_, _, _)
PartialOption(pg, d, words) ==
    IF words = <<>> THEN 0
    ELSE IF Len(Head(words)) > MinPartialWordLen /\ FirstOption(pg, d, Head(words)) # 0
         THEN FirstOption(pg, d, Head(words))
         ELSE PartialOption(pg, d, Tail(words))

\* lines 387-439: one attempt on the visible dropdown d.  bad: the dropdowns
\* whose click() raises; optbad: whether the click on the option (or on the
\* element taken for one) raises.  kind is what the attempt came to:
\*   "filled"    line 389-392, return True
\*   "selected"  an option of the exact tier was clicked, return True
\*   "partial"   an option of the partial tier was clicked, return True
\*   "other"     li:has-text / div:has-text met an element of the page outside
\*               the popup and clicked it, return True
\*   "none"      Escape, return False
\*   "raised_open", "raised_pick"   the click on the dropdown, or the click on
\*               the option, raised: the except of line 434 presses Escape and
\*               the loops go on
Attempt(pg, d, answer_text, bad, optbad) ==
    LET base == [kind |-> "none", page |-> pg, opened |-> <<>>, picked |-> <<>>,
                 other |-> <<>>, escapes |-> 0]
        exact == FirstOption(pg, d, answer_text)
        li == FirstStatic(pg, "li", answer_text)
        div == FirstStatic(pg, "div", answer_text)
        static == IF li # 0 /\ pg[li].visible THEN li
                  ELSE IF div # 0 /\ pg[div].visible THEN div ELSE 0
        partial == PartialOption(pg, d, split(answer_text))
    IN  IF Filled(pg, d) THEN [base EXCEPT !.kind = "filled"]
        ELSE IF d \in bad THEN [base EXCEPT !.kind = "raised_open", !.escapes = 1]
        ELSE LET o == [base EXCEPT !.opened = <<d>>]
             IN  IF exact # 0
                 THEN IF optbad THEN [o EXCEPT !.kind = "raised_pick", !.escapes = 1]
                      ELSE [o EXCEPT !.kind = "selected", !.page = Select(pg, d, exact),
                                     !.picked = <<<<d, pg[d].options[exact]>>>>]
                 ELSE IF static # 0
                 THEN IF optbad THEN [o EXCEPT !.kind = "raised_pick", !.escapes = 1]
                      ELSE [o EXCEPT !.kind = "other", !.other = <<static>>]
                 ELSE IF partial # 0
                 THEN IF optbad THEN [o EXCEPT !.kind = "raised_pick", !.escapes = 1]
                      ELSE [o EXCEPT !.kind = "partial", !.page = Select(pg, d, partial),
                                     !.picked = <<<<d, pg[d].options[partial]>>>>]
                 ELSE [o EXCEPT !.escapes = 1]

\* the dropdown the loops of lines 372-386 look at in position pos: level
\* (pos-1) \div 6 + 1, selector (pos-1) % 6 + 1; 0 when that locator is empty
\* or its first element is not visible
ControlAt(pg, question_element, pos) ==
    LET level == ((pos - 1) \div DropdownSelectorCount) + 1
        k == ((pos - 1) % DropdownSelectorCount) + 1
        container == Ancestor(pg, question_element, level)
        dropdown == IF container = 0 THEN 0 ELSE First(Located(pg, container, k))
    IN  IF dropdown # 0 /\ pg[dropdown].visible THEN dropdown ELSE 0

\* what a call has done so far, and one more attempt a on dropdown d
Merge(acc, d, attempt) ==
    The({ [acc EXCEPT !.page = a.page,
                      !.located = Append(acc.located, d),
                      !.opened = acc.opened \o a.opened,
                      !.picked = acc.picked \o a.picked,
                      !.other = acc.other \o a.other,
                      !.escapes = acc.escapes + a.escapes,
                      !.kinds = Append(acc.kinds, a.kind)]
          : a \in {attempt} })

\* lines 372-443: the loops over the ancestor levels and the dropdown selectors
RECURSIVE TryControls(_, _, _, _, _, _, _)
TryControls(pg, question_element, answer_text, bad, optbad, pos, acc) ==
    IF pos > AncestorLevels * DropdownSelectorCount
    THEN [acc EXCEPT !.ret = FALSE]
    ELSE The({
           IF d = 0
           THEN TryControls(pg, question_element, answer_text, bad, optbad, pos + 1, acc)
           ELSE The({
                  IF now.kinds[Len(now.kinds)] \in Raised
                  THEN TryControls(now.page, question_element, answer_text, bad,
                                   optbad, pos + 1, now)
                  ELSE [now EXCEPT !.ret = now.kinds[Len(now.kinds)] \in
                                              {"filled", "selected", "partial", "other"}]
                  : now \in {Merge(acc, d, Attempt(pg, d, answer_text, bad, optbad))} })
           : d \in {ControlAt(pg, question_element, pos)} })

\* what a call leaves behind: the page, the return value and what it did
NoCall(pg) ==
    [op |-> "none", page |-> pg, ret |-> FALSE, pattern |-> "", answer |-> "",
     question |-> 0, weak |-> <<>>, located |-> <<>>, opened |-> <<>>,
     picked |-> <<>>, other |-> <<>>, escapes |-> 0, kinds |-> <<>>,
     scrolled |-> FALSE]

\* fill_question_by_pattern, lines 334-504
fill_question_by_pattern(pg, pattern_text, answer_text, bad, optbad) ==
    The({ The({ The({ IF question_element = 0 THEN start
                ELSE TryControls(pg, question_element, answer_text, bad, optbad, 1, start)
                : start \in {[NoCall(pg) EXCEPT
                                 !.op = "fill", !.pattern = pattern_text,
                                 !.answer = answer_text,
                                 !.question = question_element,
                                 !.weak = weak,
                                 !.opened = Concat([i \in 1..Len(weak) |->
                                     weak_match_handler(pg, weak[i]).opened]),
                                 !.picked = Concat([i \in 1..Len(weak) |->
                                     weak_match_handler(pg, weak[i]).picked])]} })
          : question_element \in {FirstValidQuestion(pg, question_elements)},
            weak \in {WeakMatches(pg, question_elements)} })
          : question_elements \in {QuestionElements(pg, pattern_text)} })

\* question_mappings, lines 512-529
question_mappings ==
    << <<"Do you certify you meet all minimum qualifications", "Yes">>,
       <<"mobile text message", "Opt-Out from receiving text messages from Walmart">>,
       <<"Are you legally able to work", "Yes">>,
       <<"Please select your age category", "18 years of age and Over">>,
       <<"Walmart Associate Status", "Previous associate">>,
       <<"work authorization within 3 days", "Yes">>,
       <<"sponsorship for an immigration-related employment", "No">>,
       <<"Walmart in determining your eligibility", "No">>,
       <<"Spouse/Partner of someone", "No">>,
       <<"direct family member", "No">> >>

-----------------------------------------------------------------------------
(* step 7: handle_military_question *)

\* military_regex_patterns, lines 543-549, as the lower-case substrings each
\* case-insensitive pattern looks for (the trailing "s?" of the third is
\* optional)
military_regex_patterns ==
    << {"active duty", "guard", "reserve", "uniformed services"},
       {"the following questions are to assist walmart"},
       {"active duty or guard/reserve experience in the uniformed services of the united state"} >>

MinMilitaryTextLen == 20
MilitaryLevels == 5

MatchingPatterns(element_text) ==
    The({ {k \in 1..Len(military_regex_patterns) :
              \E t \in military_regex_patterns[k] : Contains(t, low)}
          : low \in {lower(element_text)} })

\* line 654: the container holds a dropdown of one of the first five selectors
HasDropdown(pg, container) ==
    container # 0 /\ \E k \in 1..5 : Located(pg, container, k) # {}

\* lines 590-594: the visible dropdowns of one container, selector by selector
RECURSIVE VisibleDropdowns(_, _, _)
VisibleDropdowns(pg, container, k) ==
    IF k > AllDropdownSelectorCount \/ container = 0 THEN <<>>
    ELSE InOrder({n \in Located(pg, container, k) : pg[n].visible})
         \o VisibleDropdowns(pg, container, k + 1)

\* lines 574-657: the dropdowns the level loop visits for one matched pattern;
\* it stops after the first level whose container holds a dropdown
RECURSIVE MilitaryLevelsFrom(_, _, _)
MilitaryLevelsFrom(pg, element, level) ==
    IF level > MilitaryLevels THEN <<>>
    ELSE The({ VisibleDropdowns(pg, container, 1)
               \o (IF HasDropdown(pg, container) THEN <<>>
                   ELSE MilitaryLevelsFrom(pg, element, level + 1))
               : container \in {Ancestor(pg, element, level)} })

RECURSIVE Repeat(_, _)
Repeat(s, n) == IF n = 0 THEN <<>> ELSE s \o Repeat(s, n - 1)

\* lines 555-657: every dropdown the handler visits, in order, as long as it
\* does not return
RECURSIVE MilitaryCandidates(_, _)
MilitaryCandidates(pg, element) ==
    IF element > Len(pg) THEN <<>>
    ELSE The({ IF pg[element].visible /\ Len(strip(element_text)) >= MinMilitaryTextLen
               THEN The({ IF n = 0 THEN <<>>
                          ELSE Repeat(The({MilitaryLevelsFrom(pg, element, 1)}), n)
                          : n \in {Cardinality(MatchingPatterns(element_text))} })
               ELSE <<>>
               : element_text \in {inner_text(pg, element)} })
         \o MilitaryCandidates(pg, element + 1)

\* line 616, '*:has-text("No"):not(:has(*))': the first element without
\* children whose text contains t
FirstLeaf(pg, t) ==
    First({n \in ElemIds(pg) : /\ ~ \E c \in ElemIds(pg) : pg[c].parent = n
                               /\ HasText(pg, n, t)})

\* lines 596-651: one visit of the visible dropdown d
MilitaryAttempt(pg, d, bad, optbad) ==
    LET base == [kind |-> "none", page |-> pg, opened |-> <<>>, picked |-> <<>>,
                 other |-> <<>>, escapes |-> 0]
        dropdown_text == lower(inner_text(pg, d))
        no == FirstOption(pg, d, "No")
        li == FirstStatic(pg, "li", "No")
        div == FirstStatic(pg, "div", "No")
        leaf == FirstLeaf(pg, "No")
        static == IF li # 0 /\ pg[li].visible THEN li
                  ELSE IF div # 0 /\ pg[div].visible THEN div
                  ELSE IF leaf # 0 /\ pg[leaf].visible THEN leaf ELSE 0
    IN  IF ~ (\/ ~Contains("no", dropdown_text)
              \/ Contains("select", dropdown_text)
              \/ Len(strip(dropdown_text)) = 0)
        THEN [base EXCEPT !.kind = "filled"]
        ELSE IF d \in bad THEN [base EXCEPT !.kind = "raised_open", !.escapes = 1]
        ELSE LET o == [base EXCEPT !.opened = <<d>>]
             IN  IF no # 0
                 THEN IF optbad THEN [o EXCEPT !.kind = "raised_pick", !.escapes = 1]
                      ELSE [o EXCEPT !.kind = "selected", !.page = Select(pg, d, no),
                                     !.picked = <<<<d, pg[d].options[no]>>>>]
                 ELSE IF static # 0
                 THEN IF optbad THEN [o EXCEPT !.kind = "raised_pick", !.escapes = 1]
                      ELSE [o EXCEPT !.kind = "other", !.other = <<static>>]
                 ELSE [o EXCEPT !.escapes = 1]

\* lines 557-657: the visits go on until one returns.  The page changes only
\* in a visit that returns, so every visit of a dropdown before that comes to
\* the same end.
TryMilitary(pg, cands, bad, optbad, acc) ==
    The({ The({ The({ [acc EXCEPT
                         !.ret = stop <= Len(cands),
                         !.page = IF stop <= Len(cands) THEN end[cands[stop]].page ELSE pg,
                         !.located = visited,
                         !.opened = SelectSeq(visited, LAMBDA d : end[d].opened # <<>>),
                         !.picked = IF stop <= Len(cands) THEN end[cands[stop]].picked
                                    ELSE <<>>,
                         !.other = IF stop <= Len(cands) THEN end[cands[stop]].other
                                   ELSE <<>>,
                         !.escapes = Len(SelectSeq(visited, LAMBDA d : end[d].escapes > 0)),
                         !.kinds = [i \in 1..Len(visited) |-> end[visited[i]].kind]]
                      : visited \in {SubSeq(cands, 1, IF stop <= Len(cands) THEN stop
                                                      ELSE Len(cands))} })
                : stop \in {Min({i \in 1..Len(cands) :
                                    end[cands[i]].kind \notin Raised \cup {"none"}}
                               \cup {Len(cands) + 1})} })
          : end \in {[d \in {cands[i] : i \in 1..Len(cands)} |->
                        MilitaryAttempt(pg, d, bad, optbad)]} })

\* handle_military_question, lines 535-663
handle_military_question(pg, bad, optbad) ==
    The({ TryMilitary(pg, cands, bad, optbad, start)
          : cands \in {MilitaryCandidates(pg, 1)},
            start \in {[NoCall(pg) EXCEPT !.op = "military"]} })

-----------------------------------------------------------------------------
(* step 7: the scan for empty dropdowns and the auto-fill pass *)

\* lines 700-707: the count the scan arrives at
RECURSIVE ScanCount(_, _)
ScanCount(pg, k) ==
    IF k > AllDropdownSelectorCount THEN 0
    ELSE Cardinality({n \in LocatedOnPage(pg, k) : pg[n].visible /\ ~Filled(pg, n)})
         + ScanCount(pg, k + 1)

\* lines 761-764
military_patterns ==
    <<"uniformed services", "active duty", "guard", "reserve",
      "military", "hiring program", "service members">>

AutoFillLevels == 4

\* a question_found that never looks at the text around the dropdown
QuestionFoundAlways(pg, d) == TRUE

\* lines 778-795: question_found — the text of an ancestor of the first four
\* levels holds one of the military patterns
QuestionFound(pg, d) ==
    \E level \in 1..AutoFillLevels :
        \E container \in {Ancestor(pg, d, level)} :
            /\ container # 0
            /\ \E container_text \in {lower(inner_text(pg, container))} :
                  \E k \in 1..Len(military_patterns) :
                      Contains(military_patterns[k], container_text)

\* lines 771-826: one pass of the inner loop, on dropdowns.nth(i) = d
AutoFillAttempt(pg, d, bad, optbad) ==
    LET base == [NoCall(pg) EXCEPT !.op = "autofill", !.located = <<d>>]
        no == FirstOption(pg, d, "No")
    IN  IF d = 0 \/ ~pg[d].visible THEN [base EXCEPT !.kinds = <<"invisible">>]
        ELSE IF Filled(pg, d) THEN [base EXCEPT !.kinds = <<"filled">>]
        ELSE IF ~QuestionFound(pg, d) THEN [base EXCEPT !.kinds = <<"skipped">>]
        ELSE IF d \in bad THEN [base EXCEPT !.kinds = <<"raised_open">>, !.escapes = 1]
        ELSE LET o == [base EXCEPT !.opened = <<d>>]
             IN  IF no = 0 THEN [o EXCEPT !.kinds = <<"none">>, !.escapes = 1]
                 ELSE IF optbad THEN [o EXCEPT !.kinds = <<"raised_pick">>, !.escapes = 1]
                 ELSE [o EXCEPT !.kinds = <<"selected">>, !.ret = TRUE,
                                !.page = Select(pg, d, no),
                                !.picked = <<<<d, pg[d].options[no]>>>>]

-----------------------------------------------------------------------------
(* The Application Questions pages the resolver is run on *)

Question(text, shown, options) == [text |-> text, shown |-> shown, options |-> options]

YesNo == <<"Yes", "No">>

Cert(shown) ==
    Question("Do you certify you meet all minimum qualifications for this job?",
             shown, YesNo)
Age(shown, options) == Question("Please select your age category", shown, options)
Family(shown) ==
    Question("Do you have a direct family member who currently works for Walmart?",
             shown, YesNo)
Military(shown) ==
    Question("Do you have Active Duty or Guard/Reserve experience in the Uniformed Services of the United States?",
             shown, YesNo)

AgeExact == <<"Under 18 years of age", "18 years of age and over">>
AgePartial == <<"Under 18 years", "18 years or older">>
AgeShortWord == <<"Under age 18", "Age 18 or more">>

Head4(heading) ==
    << Elem(0, "html", ""), Elem(1, "body", ""), Elem(2, "div", ""),
       Elem(3, "h2", heading) >>

\* every question in a wrapper of its own: <wrap><text/><button/></wrap>
RECURSIVE Wrapped(_, _, _, _, _)
Wrapped(wrap, tag, qs, i, pg) ==
    IF i > Len(qs) THEN pg
    ELSE LET w == Len(pg) + 1
         IN  Wrapped(wrap, tag, qs, i + 1,
                     pg \o << QText(3, wrap, "", i),
                              QText(w, tag, qs[i].text, i),
                              Dropdown(w, qs[i].shown, qs[i].options, i) >>)

\* every question three containers deeper than its wrapper:
\* <div><div><div><div><label/><button/></div></div></div></div>
RECURSIVE Nested(_, _, _)
Nested(qs, i, pg) ==
    IF i > Len(qs) THEN pg
    ELSE LET w == Len(pg) + 1
         IN  Nested(qs, i + 1,
                    pg \o << QText(3, "div", "", i),
                             QText(w, "div", "", i),
                             QText(w + 1, "div", "", i),
                             QText(w + 2, "div", "", i),
                             QText(w + 3, "label", qs[i].text, i),
                             Dropdown(w + 3, qs[i].shown, qs[i].options, i) >>)

\* the questions and their dropdowns side by side in the form
RECURSIVE Flat(_, _, _)
Flat(qs, i, pg) ==
    IF i > Len(qs) THEN pg
    ELSE Flat(qs, i + 1,
              pg \o << QText(3, "label", qs[i].text, i),
                       Dropdown(3, qs[i].shown, qs[i].options, i) >>)

Title == "Application Questions"

Pages ==
    { Wrapped("div", "label", <<Cert("Select One"), Age("Select One", AgeExact)>>, 1, Head4(Title)),
      Wrapped("div", "label", <<Cert("Yes"), Age("18 years of age and over", AgeExact)>>, 1, Head4(Title)),
      Wrapped("fieldset", "legend", <<Cert("Yes"), Family("Select One")>>, 1, Head4(Title)),
      Wrapped("fieldset", "legend", <<Age("Select One", AgePartial), Cert("Select One")>>, 1, Head4(Title)),
      Flat(<<Cert("Select One"), Age("Select One", AgePartial)>>, 1, Head4(Title)),
      Wrapped("div", "label", <<Age("Select One", AgeShortWord), Military("Select One")>>, 1, Head4(Title)),
      Wrapped("div", "label", <<Family("Yes"), Military("Select One"), Cert("Select One")>>, 1, Head4(Title)),
      Nested(<<Cert("Select One"), Military("Select One")>>, 1, Head4(Title)),
      Wrapped("div", "label", <<Cert("Select One")>>, 1, Head4("My Experience")) }

-----------------------------------------------------------------------------
(* step_7_application_questions on one page *)

\* the dropdowns whose click() raises during one call: at most MaxRaising
MaxRaising == 1
Raising(pg) == {S \in SUBSET Dropdowns(pg) : Cardinality(S) <= MaxRaising}

Idle == [s |-> 0, i |-> 0, cnt |-> 0]

\* no control clicked yet: the start of apply_to_job
NoClicks == [apply |-> 0, submit |-> 0]

\* step 7 has not returned in the current job
NotRun7 == [returned |-> FALSE, on_page |-> FALSE, saved |-> FALSE]

\* step 8 has not been called in the current job
NotRun8 == [all_dropdowns |-> <<>>, max_voluntary |-> 0, i |-> 0]

Record(r) == [r EXCEPT !.page = <<>>]

\* apply_to_job, line 1001, calls the step; lines 296-298 and 834-835: is
\* this the Application Questions page
step7_begin ==
    /\ fpc = "begin"
    /\ pc = "step7"
    /\ ran' = ran \cup {7}
    /\ calls' = Append(calls, 7)
    /\ \E on_page \in {\E n \in ElemIds(page) : page[n].text = Title} :
         /\ s7' = [s7 EXCEPT !.on_page = on_page]
         /\ fpc' = IF on_page THEN "fill" ELSE "save"
    /\ UNCHANGED <<configured, JOB_IDS, SUCCESSFUL_SUBMISSIONS, FAILED_SUBMISSIONS,
                   INCOMPLETE_SUBMISSIONS, idx, pc, browser, raised,
                   submission_successful, application_completed, button_clicked,
                   step4_ret, submit_clicked, s9, search_runs, apply_lookups, clicks,
                   step4_first, timed_out, shot_failed, caught, trace,
                   job_result, backups>>
    /\ UNCHANGED <<page, m, questions_filled, empty_dropdowns_found,
                   filled_count, af, s8, last>>
    /\ UNCHANGED ops

\* lines 667-671: the scroll of the mapping loop, page.evaluate, is called
\* when fill_question_by_pattern has returned ret
ScrollsAlways(ret) == TRUE

Scrolls(ret) == ret

\* lines 666-676: one pass of the loop over question_mappings.  The call of
\* fill_question_by_pattern cannot raise (lines 347-502 catch everything);
\* page.evaluate of line 671 is not guarded: if it raises, the exception
\* leaves the step for the handler of line 1015
step7_fill ==
    /\ fpc = "fill"
    /\ m <= Len(question_mappings)
    /\ \E bad \in Raising(page), optbad \in BOOLEAN, scroll_raises \in BOOLEAN :
         \E r \in {fill_question_by_pattern(page, question_mappings[m][1],
                                             question_mappings[m][2], bad, optbad)} :
             /\ scroll_raises => Scrolls(r.ret)
             /\ page' = r.page
             /\ last' = [Record(r) EXCEPT !.scrolled = Scrolls(r.ret)]
             /\ questions_filled' = questions_filled + (IF r.ret THEN 1 ELSE 0)
             /\ raised' = IF scroll_raises THEN "step" ELSE raised
             /\ pc' = IF scroll_raises THEN "except" ELSE pc
             /\ fpc' = IF scroll_raises THEN "done"
                       ELSE IF m = Len(question_mappings) THEN "military" ELSE "fill"
    /\ m' = m + 1
    /\ UNCHANGED <<configured, JOB_IDS, SUCCESSFUL_SUBMISSIONS, FAILED_SUBMISSIONS,
                   INCOMPLETE_SUBMISSIONS, idx, browser, ran, calls,
                   submission_successful, application_completed, button_clicked,
                   step4_ret, submit_clicked, s9, search_runs, apply_lookups, clicks,
                   step4_first, timed_out, shot_failed, caught, trace,
                   job_result, backups>>
    /\ UNCHANGED <<empty_dropdowns_found, filled_count, af, s7, s8>>
    /\ UNCHANGED ops

\* lines 678-682
step7_military ==
    /\ fpc = "military"
    /\ \E bad \in Raising(page), optbad \in BOOLEAN :
         \E r \in {handle_military_question(page, bad, optbad)} :
             /\ page' = r.page
             /\ last' = Record(r)
             /\ questions_filled' = questions_filled + (IF r.ret THEN 1 ELSE 0)
    /\ fpc' = "scan"
    /\ UNCHANGED <<wf_vars, m, empty_dropdowns_found, filled_count, af, s7, s8>>
    /\ UNCHANGED ops

\* lines 684-766: the scan, and the entry of the auto-fill pass if it counted
\* an empty dropdown
step7_scan ==
    /\ fpc = "scan"
    /\ empty_dropdowns_found' = ScanCount(page, 1)
    /\ IF ScanCount(page, 1) = 0
       THEN fpc' = "save" /\ af' = af
       ELSE fpc' = "autofill"
            /\ af' = [s |-> 1, i |-> 0, cnt |-> Cardinality(LocatedOnPage(page, 1))]
    /\ filled_count' = 0
    /\ last' = [NoCall(<<>>) EXCEPT !.op = "scan"]
    /\ UNCHANGED <<wf_vars, page, m, questions_filled, s7, s8>>
    /\ UNCHANGED ops

\* lines 769-826: one pass of the loop over the dropdowns of selector af.s
step7_autofill_dropdown ==
    /\ fpc = "autofill"
    /\ af.i < af.cnt
    /\ \E bad \in Raising(page), optbad \in BOOLEAN :
         \E r \in {AutoFillAttempt(page, Nth(LocatedOnPage(page, af.s), af.i),
                                    bad, optbad)} :
             /\ page' = r.page
             /\ last' = Record(r)
             /\ filled_count' = filled_count + (IF r.ret THEN 1 ELSE 0)
    /\ af' = [af EXCEPT !.i = af.i + 1]
    /\ UNCHANGED <<wf_vars, fpc, m, questions_filled, empty_dropdowns_found, s7,
                   s8>>
    /\ UNCHANGED ops

\* lines 767-769 and 828-832: the next selector, or the end of the pass
step7_autofill_next_selector ==
    /\ fpc = "autofill"
    /\ af.i >= af.cnt
    /\ IF af.s < AllDropdownSelectorCount
       THEN /\ af' = [s |-> af.s + 1, i |-> 0,
                      cnt |-> Cardinality(LocatedOnPage(page, af.s + 1))]
            /\ UNCHANGED <<fpc, questions_filled>>
       ELSE /\ af' = Idle
            /\ fpc' = "save"
            /\ questions_filled' = questions_filled + filled_count
    /\ last' = [NoCall(<<>>) EXCEPT !.op = "next"]
    /\ UNCHANGED <<wf_vars, page, m, empty_dropdowns_found, filled_count, s7, s8>>
    /\ UNCHANGED ops

\* lines 837-847: Save and Continue.  met: the button is not on the page
\* (line 847), it is clicked, or the click of line 842 raises.  The function
\* has no return statement: whatever it met, it returns None, and line 1001
\* of apply_to_job does not look at what it returns; line 1002 comes next.
step7_save ==
    /\ fpc = "save"
    /\ fpc' = "done"
    /\ \E met \in {"absent", "clicked", "click_raises"} :
         /\ s7' = [s7 EXCEPT !.saved = (met = "clicked"),
                             !.returned = (met # "click_raises")]
         /\ raised' = IF met = "click_raises" THEN "step" ELSE raised
         /\ pc' = IF met = "click_raises" THEN "except" ELSE "step8"
    /\ last' = [NoCall(<<>>) EXCEPT !.op = "save"]
    /\ UNCHANGED <<configured, JOB_IDS, SUCCESSFUL_SUBMISSIONS, FAILED_SUBMISSIONS,
                   INCOMPLETE_SUBMISSIONS, idx, browser, ran, calls,
                   submission_successful, application_completed, button_clicked,
                   step4_ret, submit_clicked, s9, search_runs, apply_lookups, clicks,
                   step4_first, timed_out, shot_failed, caught, trace,
                   job_result, backups>>
    /\ UNCHANGED <<page, m, questions_filled, empty_dropdowns_found,
                   filled_count, af, s8>>
    /\ UNCHANGED ops

\* where apply_to_job is when it calls step n, lines 995-1005
StepPc ==
    <<"step1", "step2", "step3", "step4", "step5", "step6", "step7", "step8",
      "step9">>

\* the call of step n in a job whose earlier steps have returned,
\* the browser showing one of the pages
InitAtStep(n, pages) ==
    /\ configured = TRUE
    /\ JOB_IDS = <<"101">>
    /\ SUCCESSFUL_SUBMISSIONS = <<>>
    /\ FAILED_SUBMISSIONS = <<>>
    /\ INCOMPLETE_SUBMISSIONS = <<>>
    /\ idx = 1
    /\ pc = StepPc[n]
    /\ browser = "open"
    /\ submission_successful = FALSE
    /\ application_completed = FALSE
    /\ button_clicked = (n > 4)
    /\ step4_ret = IF n > 4 THEN "None" ELSE "pending"
    /\ submit_clicked = FALSE
    /\ s9 = "pending"
    /\ raised = "none"
    /\ ran = 1..(n - 1)
    /\ calls = [k \in 1..(n - 1) |-> k]
    /\ search_runs = IF n > 3 THEN 1 ELSE 0
    /\ apply_lookups = IF n > 4 THEN 1 ELSE 0
    /\ clicks = [apply |-> IF n > 4 THEN 1 ELSE 0, submit |-> 0]
    /\ step4_first = IF n > 4 THEN "clicked" ELSE "pending"
    /\ timed_out = FALSE
    /\ shot_failed = FALSE
    /\ caught = FALSE
    /\ trace = <<<<"open", 1>>>>
    /\ job_result = <<>>
    /\ backups = {}
    /\ page \in pages
    /\ fpc = "begin"
    /\ m = 1
    /\ questions_filled = 0
    /\ empty_dropdowns_found = 0
    /\ filled_count = 0
    /\ af = Idle
    /\ s7 = IF n <= 7 THEN NotRun7
            ELSE [returned |-> TRUE, on_page |-> TRUE, saved |-> TRUE]
    /\ s8 = NotRun8
    /\ ops = <<>>
    /\ last = NoCall(<<>>)

\* step 7 of a job whose first six steps have returned
InitForm == InitAtStep(7, Pages)

NextForm ==
    \/ step7_begin
    \/ step7_fill
    \/ step7_military
    \/ step7_scan
    \/ step7_autofill_dropdown
    \/ step7_autofill_next_selector
    \/ step7_save

SpecForm == InitForm /\ [][NextForm]_vars

\* Pages that differ in what the options and the question texts are
NotSure == <<"Not sure", "Yes", "No">>
AgeLaterWord == <<"Under 18", "18 and over">>

FamilyAsked(options) ==
    Question("Do you have a direct family member who currently works for Walmart?",
             "Select One", options)
FamilyNote(shown) ==
    Question("Direct family member employed by Walmart", shown, YesNo)

OptionPages ==
    { Wrapped("div", "label", <<FamilyAsked(NotSure)>>, 1, Head4(Title)),
      Wrapped("div", "label", <<Age("Select One", AgeLaterWord)>>, 1, Head4(Title)),
      Flat(<<FamilyNote("Select One")>>, 1, Head4(Title)),
      Flat(<<FamilyNote("Yes"), Cert("Select One")>>, 1, Head4(Title)) }

InitOptions == InitAtStep(7, OptionPages)

SpecOptions == InitOptions /\ [][NextForm]_vars

-----------------------------------------------------------------------------
(* step_8_voluntary_disclosures on one Voluntary Disclosures page *)

\* lines 44-47
VOLUNTARY_DISCLOSURE_ANSWERS ==
    <<"Asian/No Hispanic Origin (United States of America)", "Female">>

\* lines 862-867: dropdown_selectors of step 8, the first four of step 7's
VoluntarySelectorCount == 4

\* line 880: min(2, ...)
MaxVoluntary == 2

\* lines 869-875: all_dropdowns — selector by selector, the visible and
\* enabled elements in document order (every element of the pages is
\* enabled); an element that two selectors match is in the list twice
all_dropdowns(pg) ==
    Concat([k \in 1..VoluntarySelectorCount |->
               InOrder({n \in LocatedOnPage(pg, k) : pg[n].visible})])

\* line 880
max_voluntary(dropdowns) ==
    Min({MaxVoluntary, Len(dropdowns), Len(VOLUNTARY_DISCLOSURE_ANSWERS)})

\* lines 888-910: one pass of the loop, on dropdown d with its answer.  bad:
\* the dropdowns whose click() raises; optbad: the click on the option raises.
\* The except of lines 909-910 prints the error and does nothing else: after
\* an exception no Escape is pressed.  kind is what the pass came to:
\*   "raised_open"  dropdown.click() raised, nothing was opened
\*   "selected"     an option containing the answer was clicked
\*   "partial"      an option containing the first word was clicked
\*   "raised_pick"  the click on the option raised, the popup stays open
\*   "none"         no option: dropdown.press('Escape')
VoluntaryAttempt(pg, d, answer, bad, optbad) ==
    LET base == [NoCall(pg) EXCEPT !.op = "voluntary", !.answer = answer,
                                   !.located = <<d>>]
        exact == FirstOption(pg, d, answer)
        words == split(answer)
        option == IF exact # 0 THEN exact
                  ELSE IF Len(words) > 1 THEN FirstOption(pg, d, words[1])
                  ELSE 0
    IN  IF d \in bad THEN [base EXCEPT !.kinds = <<"raised_open">>]
        ELSE LET o == [base EXCEPT !.opened = <<d>>]
             IN  IF option = 0 THEN [o EXCEPT !.kinds = <<"none">>, !.escapes = 1]
                 ELSE IF optbad THEN [o EXCEPT !.kinds = <<"raised_pick">>]
                 ELSE [o EXCEPT !.kinds = <<IF exact # 0 THEN "selected" ELSE "partial">>,
                                !.ret = TRUE,
                                !.page = Select(pg, d, option),
                                !.picked = <<<<d, pg[d].options[option]>>>>]

\* apply_to_job, line 1002, calls the step; lines 853-880
step8_begin ==
    /\ pc = "step8"
    /\ fpc = "begin"
    /\ ran' = ran \cup {8}
    /\ calls' = Append(calls, 8)
    /\ \E dropdowns \in {all_dropdowns(page)} :
         s8' = [all_dropdowns |-> dropdowns,
                max_voluntary |-> max_voluntary(dropdowns), i |-> 0]
    /\ fpc' = "voluntary"
    /\ UNCHANGED <<configured, JOB_IDS, SUCCESSFUL_SUBMISSIONS, FAILED_SUBMISSIONS,
                   INCOMPLETE_SUBMISSIONS, idx, pc, browser, raised,
                   submission_successful, application_completed, button_clicked,
                   step4_ret, submit_clicked, s9, search_runs, apply_lookups, clicks,
                   step4_first, timed_out, shot_failed, caught, trace,
                   job_result, backups>>
    /\ UNCHANGED <<page, m, questions_filled, empty_dropdowns_found,
                   filled_count, af, s7, last>>
    /\ UNCHANGED ops

\* lines 882-910: one pass of the loop over the first max_voluntary dropdowns
step8_dropdown ==
    /\ pc = "step8"
    /\ fpc = "voluntary"
    /\ s8.i < s8.max_voluntary
    /\ \E bad \in Raising(page), optbad \in BOOLEAN :
         \E r \in {VoluntaryAttempt(page, s8.all_dropdowns[s8.i + 1],
                                     VOLUNTARY_DISCLOSURE_ANSWERS[s8.i + 1],
                                     bad, optbad)} :
             /\ page' = r.page
             /\ last' = Record(r)
    /\ s8' = [s8 EXCEPT !.i = s8.i + 1]
    /\ UNCHANGED <<wf_vars, fpc, m, questions_filled, empty_dropdowns_found,
                   filled_count, af, s7>>
    /\ UNCHANGED ops

\* lines 912-928: the checkbox and Save and Continue.  Neither click is
\* guarded, and line 924 clicks without looking whether the button is there:
\* the step returns, or an exception leaves it for the handler of line 1015
step8_save ==
    /\ pc = "step8"
    /\ fpc = "voluntary"
    /\ s8.i >= s8.max_voluntary
    /\ fpc' = "done"
    /\ \E met \in {"clicked", "raises"} :
         /\ raised' = IF met = "raises" THEN "step" ELSE raised
         /\ pc' = IF met = "raises" THEN "except" ELSE "step9"
    /\ last' = [NoCall(<<>>) EXCEPT !.op = "save"]
    /\ UNCHANGED <<configured, JOB_IDS, SUCCESSFUL_SUBMISSIONS, FAILED_SUBMISSIONS,
                   INCOMPLETE_SUBMISSIONS, idx, browser, ran, calls,
                   submission_successful, application_completed, button_clicked,
                   step4_ret, submit_clicked, s9, search_runs, apply_lookups, clicks,
                   step4_first, timed_out, shot_failed, caught, trace,
                   job_result, backups>>
    /\ UNCHANGED <<page, m, questions_filled, empty_dropdowns_found,
                   filled_count, af, s7, s8>>
    /\ UNCHANGED ops

\* The Voluntary Disclosures pages the step is run on
EthnicityFull ==
    <<"White (United States of America)",
      "Asian/No Hispanic Origin (United States of America)">>
EthnicityFirstWord == <<"Two or More Races", "Asian/No Hispanic Origin">>
EthnicityOther == <<"White (Not Hispanic)", "Asian (Not Hispanic)">>
GenderOptions == <<"Male", "Female">>

Ethnicity(options) == Question("Please select your ethnicity", "Select One", options)
Gender(shown) == Question("Please select your gender", shown, GenderOptions)

Disclosures == "Voluntary Disclosures"

\* element n also carries role="combobox"
AsCombobox(pg, n) == [pg EXCEPT ![n].role = "combobox"]

DisclosurePages ==
    { Wrapped("div", "label", <<Ethnicity(EthnicityFull), Gender("Select One")>>, 1, Head4(Disclosures)),
      Wrapped("div", "label", <<Ethnicity(EthnicityFirstWord), Gender("Select One")>>, 1, Head4(Disclosures)),
      Wrapped("div", "label", <<Ethnicity(EthnicityOther), Gender("Male")>>, 1, Head4(Disclosures)),
      Wrapped("div", "label", <<Gender("Select One"), Ethnicity(EthnicityFull)>>, 1, Head4(Disclosures)),
      Wrapped("div", "label", <<Gender("Select One")>>, 1, Head4(Disclosures)),
      Flat(<<Ethnicity(EthnicityFirstWord), Gender("Male")>>, 1, Head4(Disclosures)),
      Flat(<<Ethnicity(EthnicityOther), Gender("Select One")>>, 1, Head4(Disclosures)),
      AsCombobox(Flat(<<Ethnicity(EthnicityFull), Gender("Select One")>>, 1,
                      Head4(Disclosures)), 8),
      AsCombobox(Wrapped("fieldset", "legend",
                         <<Ethnicity(EthnicityFull), Gender("Select One")>>, 1,
                         Head4(Disclosures)), 10),
      AsCombobox(Wrapped("div", "label",
                         <<Ethnicity(EthnicityFull), Gender("Select One")>>, 1,
                         Head4(Disclosures)), 7),
      Nested(<<Gender("Female"), Ethnicity(EthnicityFirstWord)>>, 1, Head4(Disclosures)) }

InitDisclosures == InitAtStep(8, DisclosurePages)

NextDisclosures ==
    \/ step8_begin
    \/ step8_dropdown
    \/ step8_save

SpecDisclosures == InitDisclosures /\ [][NextDisclosures]_vars

-----------------------------------------------------------------------------
(* The configuration loader and the results file *)

\* str.split(sep) for a one-character sep: the parts between the separators,
\* empty parts included
RECURSIVE SplitOn(_, _)
SplitOn(s, sep) ==
    The({ IF cut > Len(s) THEN <<s>>
          ELSE <<SubSeq(s, 1, cut - 1)>> \o SplitOn(The({SubSeq(s, cut + 1, Len(s))}), sep)
          : cut \in {Min({i \in 1..Len(s) : Char(s, i) = sep} \cup {Len(s) + 1})} })

\* a loader that keeps the parts as they are between the commas
load_job_ids_unstripped(value) ==
    SelectSeq(SplitOn(value, ","), LAMBDA j : Len(strip(j)) > 0)

\* line 16: [j.strip() for j in value.split(",") if j.strip()]
load_job_ids(value) ==
    LET kept == SelectSeq(SplitOn(value, ","), LAMBDA j : Len(strip(j)) > 0)
    IN  [k \in 1..Len(kept) |-> strip(kept[k])]

\* sep.join(list)
RECURSIVE join(_, _)
join(sep, list) ==
    IF list = <<>> THEN ""
    ELSE IF Len(list) = 1 THEN list[1]
    ELSE list[1] \o sep \o join(sep, Tail(list))

Digits == "0123456789"

\* the decimal numeral an f-string puts for a length
RECURSIVE str(_)
str(n) ==
    IF n < 10 THEN Char(Digits, n + 1)
    ELSE str(n \div 10) \o Char(Digits, (n % 10) + 1)

\* save_job_tracking_results, lines 1033-1076: the lines written to
\* job_result.txt at time now (the pictographs of the headings are left out)
FileLines(now, total, successful, failed, incomplete) ==
    << "# WALMART JOB APPLICATION RESULTS",
       "# Generated on: " \o now,
       "",
       "# SUMMARY:",
       "# Total jobs processed: " \o str(total),
       "# Successful submissions: " \o str(Len(successful)),
       "# Incomplete submissions: " \o str(Len(incomplete)),
       "# Failed applications: " \o str(Len(failed)),
       "" >>
    \o (IF successful # <<>>
        THEN <<"# SUCCESSFUL SUBMISSIONS (COMPLETED):">> \o successful \o <<"">>
        ELSE <<>>)
    \o (IF failed # <<>>
        THEN << "# FAILED APPLICATIONS (NEED MANUAL COMPLETION):",
                "# Copy these to .env JOB_IDS for retry:",
                "JOB_IDS=" \o join(", ", failed),
                "",
                "# Individual failed job IDs:" >> \o failed \o <<"">>
        ELSE <<>>)
    \o (IF incomplete # <<>>
        THEN << "# INCOMPLETE SUBMISSIONS (NEED MANUAL REVIEW/SUBMIT):",
                "# Applications completed but submission failed - check manually:",
                "INCOMPLETE_IDS=" \o join(", ", incomplete),
                "",
                "# Individual incomplete job IDs:" >> \o incomplete \o <<"">>
        ELSE <<>>)
    \o (IF failed # <<>> \/ incomplete # <<>>
        THEN << "# NEXT STEPS:",
                "# 1. For FAILED jobs: Copy the JOB_IDS line above to your .env file",
                "# 2. For INCOMPLETE jobs: Manually visit and submit these applications",
                "# 3. Remove successfully completed jobs from your .env file" >>
        ELSE <<>>)

\* the lines a reader of the file finds: what was written, cut at the line
\* breaks
RECURSIVE Lines(_)
Lines(written) ==
    IF written = <<>> THEN <<>>
    ELSE SplitOn(Head(written), "\n") \o Lines(Tail(written))

\* time.strftime at lines 1034 and 1081, in this run and in an earlier one
Now == [written |-> "2026-01-02 03:04:05", stamp |-> "20260102_030405"]
Earlier == [written |-> "2026-01-01 09:00:00", stamp |-> "20260101_090000"]

\* what an earlier run may have left in the working directory
PreviousRuns ==
    { [lines |-> <<>>, backups |-> {}],
      [lines |-> Lines(FileLines(Earlier.written, 1, <<"100">>, <<>>, <<>>)),
       backups |-> {Earlier.stamp}] }

\* the values of the lines of a .env or results file that set name
ValuesOf(name, lines) ==
    LET set == SelectSeq(lines, LAMBDA l : Prefix(l, Len(name) + 1) = name \o "=")
    IN  [k \in 1..Len(set) |-> SubSeq(set[k], Len(name) + 2, Len(set[k]))]

-----------------------------------------------------------------------------
(* The batch driver *)

Init ==
    /\ configured \in BOOLEAN
    /\ JOB_IDS \in SeqsUpTo(MaxJobs)
    /\ SUCCESSFUL_SUBMISSIONS = <<>>
    /\ FAILED_SUBMISSIONS = <<>>
    /\ INCOMPLETE_SUBMISSIONS = <<>>
    /\ idx = 1
    /\ pc = "main"
    /\ browser = "none"
    /\ submission_successful = FALSE
    /\ application_completed = FALSE
    /\ button_clicked = FALSE
    /\ step4_ret = "pending"
    /\ submit_clicked = FALSE
    /\ s9 = "pending"
    /\ raised = "none"
    /\ ran = {}
    /\ calls = <<>>
    /\ search_runs = 0
    /\ apply_lookups = 0
    /\ clicks = NoClicks
    /\ step4_first = "pending"
    /\ timed_out = FALSE
    /\ shot_failed = FALSE
    /\ caught = FALSE
    /\ trace = <<>>
    /\ \E previous \in PreviousRuns :
          /\ job_result = previous.lines
          /\ backups = previous.backups
    /\ page = <<>>
    /\ fpc = "idle"
    /\ m = 1
    /\ questions_filled = 0
    /\ empty_dropdowns_found = 0
    /\ filled_count = 0
    /\ af = Idle
    /\ s7 = NotRun7
    /\ s8 = NotRun8
    /\ ops = <<>>
    /\ last = NoCall(<<>>)

lists == <<SUCCESSFUL_SUBMISSIONS, FAILED_SUBMISSIONS, INCOMPLETE_SUBMISSIONS>>
locals == <<submission_successful, application_completed, button_clicked,
            step4_ret, submit_clicked, s9, ran, search_runs, calls,
            apply_lookups, clicks, step4_first>>
inputs == <<configured, JOB_IDS, form_vars>>
swallowed == <<timed_out, shot_failed, caught>>
files == <<job_result, backups>>

\* a check that looks at JOB_IDS only
MissingJobIdsOnly(settings, ids) == ids = <<>>

\* main, lines 1094-1100: a setting is missing or there is no job id
Missing(settings, ids) == ~settings \/ ids = <<>>

\* main, lines 1094-1100: a missing setting or an empty list returns at once
main_check ==
    /\ pc = "main"
    /\ pc' = IF Missing(configured, JOB_IDS) THEN "returned" ELSE "loop"
    /\ UNCHANGED <<inputs, lists, idx, browser, locals, raised, swallowed, trace, files>>

\* main, lines 1105-1106, and apply_to_job, lines 986-987: the next job starts
main_loop ==
    /\ pc = "loop"
    /\ idx <= Len(JOB_IDS)
    /\ pc' = "launch"
    /\ submission_successful' = FALSE
    /\ application_completed' = FALSE
    /\ button_clicked' = FALSE
    /\ step4_ret' = "pending"
    /\ submit_clicked' = FALSE
    /\ s9' = "pending"
    /\ raised' = "none"
    /\ ran' = {}
    /\ calls' = <<>>
    /\ search_runs' = 0
    /\ apply_lookups' = 0
    /\ clicks' = NoClicks
    /\ step4_first' = "pending"
    /\ timed_out' = FALSE
    /\ shot_failed' = FALSE
    /\ caught' = FALSE
    /\ browser' = "none"
    /\ UNCHANGED <<inputs, lists, idx, trace, files>>

\* apply_to_job, lines 989-991: both calls are outside the try block, so an
\* exception of either leaves apply_to_job and main
apply_to_job_launch ==
    /\ pc = "launch"
    /\ \E outcome \in {"ok", "launch_raises", "new_page_raises"} :
         /\ browser' = IF outcome = "launch_raises" THEN "none" ELSE "open"
         /\ trace' = IF outcome = "launch_raises" THEN trace
                     ELSE Append(trace, <<"open", idx>>)
         /\ raised' = CASE outcome = "ok" -> "none"
                        [] outcome = "launch_raises" -> "launch"
                        [] OTHER -> "new_page"
         /\ pc' = IF outcome = "ok" THEN "step1" ELSE "crashed"
    /\ UNCHANGED <<inputs, lists, idx, locals, swallowed, files>>

\* a debug_screenshot without its try/except
debug_screenshot_unguarded(fails) == IF fails THEN "raised" ELSE "returned"

\* debug_screenshot, lines 52-58: an exception of page.screenshot is caught
debug_screenshot(fails) == "returned"

\* wait_for_page_load, lines 61-67: a timeout of wait_for_load_state is caught
wait_for_page_load(timeout) == "returned"

\* page.goto(url, wait_until="networkidle"), lines 80 and 111: not guarded
goto(timeout) == IF timeout THEN "raised" ELSE "returned"

\* the steps that call page.goto, that call wait_for_page_load, and that hold
\* a try/except of their own around page operations
Gotos == {1, 2}
Waits == {1, 3, 4, 5, 6, 7, 8, 9}
Handlers == {4, 5, 7, 8}

\* what the page does to the guarded operations of step n: the navigation
\* does not settle in time, a wait_for_page_load times out, a screenshot
\* cannot be written, an operation inside the step's own try/except raises.
\* A navigation that raises is the first operation of its step.
Inputs(n) ==
    {in \in [goto_timeout : IF n \in Gotos THEN BOOLEAN ELSE {FALSE},
             timeout : IF n \in Waits THEN BOOLEAN ELSE {FALSE},
             shot : BOOLEAN,
             swallow : IF n \in Handlers THEN BOOLEAN ELSE {FALSE}] :
        in.goto_timeout => ~in.timeout /\ ~in.shot /\ ~in.swallow}

\* the exception these operations let out of the step, "none" if none
Thrown(in) ==
    CASE goto(in.goto_timeout) = "raised" -> "timeout"
      [] wait_for_page_load(in.timeout) = "raised" -> "timeout"
      [] debug_screenshot(in.shot) = "raised" -> "screenshot"
      [] OTHER -> "none"

Noted(in) ==
    /\ timed_out' = (timed_out \/ in.timeout \/ in.goto_timeout)
    /\ shot_failed' = (shot_failed \/ in.shot)
    /\ caught' = (caught \/ in.swallow)

\* a try block that goes on with its next statement after an exception
AfterStepIgnoringException(thrown, next) == next

\* apply_to_job, lines 993-1015: an exception that leaves a step leaves the
\* try block for the handler of line 1015; otherwise the next statement runs
AfterStep(thrown, next) == IF thrown = "none" THEN next ELSE "except"

\* a step whose other page operations are not guarded: it returns or raises
PlainStep(n, here, next) ==
    /\ pc = here
    /\ ran' = ran \cup {n}
    /\ calls' = Append(calls, n)
    /\ \E in \in Inputs(n), raises \in BOOLEAN :
         LET thrown == IF Thrown(in) # "none" THEN Thrown(in)
                       ELSE IF raises THEN "step" ELSE "none"
         IN  /\ pc' = AfterStep(thrown, next)
             /\ raised' = IF thrown = "none" THEN raised ELSE thrown
             /\ Noted(in)
    /\ UNCHANGED <<inputs, lists, idx, browser, trace, files>>

step_1_login ==
    /\ PlainStep(1, "step1", "step2")
    /\ UNCHANGED <<submission_successful, application_completed, button_clicked,
                   step4_ret, submit_clicked, s9, search_runs, apply_lookups, clicks,
                   step4_first>>

step_2_navigate_to_jobs ==
    /\ PlainStep(2, "step2", "step3")
    /\ UNCHANGED <<submission_successful, application_completed, button_clicked,
                   step4_ret, submit_clicked, s9, search_runs, apply_lookups, clicks,
                   step4_first>>

step_3_search_job ==
    /\ PlainStep(3, "step3", "step4")
    /\ search_runs' = search_runs + 1
    /\ UNCHANGED <<submission_successful, application_completed, button_clicked,
                   step4_ret, submit_clicked, s9, apply_lookups, clicks, step4_first>>

\* a step 4 that searches again whatever the first pass met
RetriesAlways(first) == TRUE

\* step_4_click_apply, line 177: if not button_clicked
Retries(first) == first = "absent"

\* step_4_click_apply, lines 151-214.  first / second: what the loop over
\* apply_selectors met on the first attempt and after the retry; retry: whether
\* the call of step_3_search_job at line 179 raised.  The "Use last application"
\* part (lines 200-212) is inside try/except and wait_for_page_load swallows.
step_4_click_apply ==
    /\ pc = "step4"
    /\ ran' = ran \cup {4}
    /\ \E first \in {"clicked", "absent", "raises"},
          retry \in {"ok", "raises"},
          second \in {"clicked", "absent", "raises"},
          in \in Inputs(4) :
         LET retried == first # "raises" /\ Retries(first)
             exc == \/ first = "raises"
                    \/ retried /\ retry = "raises"
                    \/ retried /\ retry = "ok" /\ second = "raises"
             clicked == \/ first = "clicked"
                        \/ retried /\ retry = "ok" /\ second = "clicked"
             thrown == IF exc THEN "step" ELSE Thrown(in)
         IN  /\ search_runs' = IF retried THEN search_runs + 1 ELSE search_runs
             /\ calls' = calls \o (IF retried THEN <<4, 3>> ELSE <<4>>)
             /\ apply_lookups' = IF retried /\ retry = "ok" THEN 2 ELSE 1
             /\ clicks' = [clicks EXCEPT !.apply =
                            @ + (IF first = "clicked" THEN 1 ELSE 0)
                              + (IF retried /\ retry = "ok" /\ second = "clicked"
                                 THEN 1 ELSE 0)]
             /\ step4_first' = first
             /\ button_clicked' = clicked
             /\ step4_ret' = CASE thrown # "none" -> "pending"
                               [] clicked -> "None"
                               [] OTHER -> "False"
             /\ raised' = IF thrown # "none" THEN thrown ELSE raised
             \* apply_to_job, line 998: the return value is not looked at
             /\ pc' = AfterStep(thrown, "step5")
             /\ IF exc THEN UNCHANGED swallowed ELSE Noted(in)
    /\ UNCHANGED <<inputs, lists, idx, browser, submission_successful,
                   application_completed, submit_clicked, s9, trace, files>>

\* step_5_my_information, lines 220-260: every page operation is inside a
\* try/except or inside wait_for_page_load / debug_screenshot, which swallow
step_5_my_information ==
    /\ pc = "step5"
    /\ ran' = ran \cup {5}
    /\ calls' = Append(calls, 5)
    /\ \E in \in Inputs(5) :
         /\ pc' = AfterStep(Thrown(in), "step6")
         /\ raised' = IF Thrown(in) = "none" THEN raised ELSE Thrown(in)
         /\ Noted(in)
    /\ UNCHANGED <<inputs, lists, idx, browser, submission_successful,
                   application_completed, button_clicked, step4_ret,
                   submit_clicked, s9, search_runs, apply_lookups, clicks, step4_first,
                   trace, files>>

step_6_my_experience ==
    /\ PlainStep(6, "step6", "step7")
    /\ UNCHANGED <<submission_successful, application_completed, button_clicked,
                   step4_ret, submit_clicked, s9, search_runs, apply_lookups, clicks,
                   step4_first>>

step_7_application_questions ==
    /\ PlainStep(7, "step7", "step8")
    /\ UNCHANGED <<submission_successful, application_completed, button_clicked,
                   step4_ret, submit_clicked, s9, search_runs, apply_lookups, clicks,
                   step4_first>>

step_8_voluntary_disclosures ==
    /\ PlainStep(8, "step8", "step9")
    /\ UNCHANGED <<submission_successful, application_completed, button_clicked,
                   step4_ret, submit_clicked, s9, search_runs, apply_lookups, clicks,
                   step4_first>>

\* a step 9 that returns nothing, as steps 1 to 8 do
Step9ReturnsNone(clicked) == FALSE

\* step_9_review_and_submit, line 972: return submit_clicked
Step9Return(clicked) == clicked

\* step_9_review_and_submit, lines 934-972, and the assignment of line 1005.
\* met: what the loop over submit_selectors met.  After the click only
\* wait_for_page_load and debug_screenshot run, and both swallow.
step_9_review_and_submit ==
    /\ pc = "step9"
    /\ ran' = ran \cup {9}
    /\ calls' = Append(calls, 9)
    /\ \E met \in {"lookup_raises", "none_visible", "click_raises", "clicked"},
          in \in Inputs(9) :
         LET thrown == IF met \in {"lookup_raises", "click_raises"} THEN "step"
                       ELSE Thrown(in)
             exc == thrown # "none"
         IN  /\ s9' = IF exc THEN "raised" ELSE met
             /\ submit_clicked' = (met = "clicked")
             /\ clicks' = [clicks EXCEPT !.submit = @ + (IF met = "clicked" THEN 1 ELSE 0)]
             /\ submission_successful' = IF exc THEN submission_successful
                                         ELSE Step9Return(met = "clicked")
             /\ raised' = IF exc THEN thrown ELSE raised
             /\ pc' = AfterStep(thrown, "classify")
             /\ Noted([in EXCEPT !.timeout = in.timeout /\ met = "clicked"])
    /\ UNCHANGED <<inputs, lists, idx, browser, application_completed,
                   button_clicked, step4_ret, search_runs, apply_lookups,
                   step4_first, trace, files>>

\* a classification with no INCOMPLETE list
BucketFailedUnlessSubmitted(successful) == IF successful THEN "SUCCESS" ELSE "FAILED"

\* apply_to_job, lines 1008-1013: the list a completed application goes to
Bucket(successful) == IF successful THEN "SUCCESS" ELSE "INCOMPLETE"

\* a list that takes no entry
append_nothing(list, x) == list

\* list.append(x), lines 1010, 1013 and 1018
append(list, x) == Append(list, x)

\* apply_to_job, lines 1006-1013
apply_to_job_classify ==
    /\ pc = "classify"
    /\ application_completed' = TRUE
    /\ CASE Bucket(submission_successful) = "SUCCESS" ->
            /\ SUCCESSFUL_SUBMISSIONS' = append(SUCCESSFUL_SUBMISSIONS, job_id)
            /\ UNCHANGED <<INCOMPLETE_SUBMISSIONS, FAILED_SUBMISSIONS>>
         [] Bucket(submission_successful) = "INCOMPLETE" ->
            /\ INCOMPLETE_SUBMISSIONS' = append(INCOMPLETE_SUBMISSIONS, job_id)
            /\ UNCHANGED <<SUCCESSFUL_SUBMISSIONS, FAILED_SUBMISSIONS>>
         [] OTHER ->
            /\ FAILED_SUBMISSIONS' = append(FAILED_SUBMISSIONS, job_id)
            /\ UNCHANGED <<SUCCESSFUL_SUBMISSIONS, INCOMPLETE_SUBMISSIONS>>
    /\ pc' = "finally"
    /\ UNCHANGED <<inputs, idx, browser, submission_successful, button_clicked,
                   step4_ret, submit_clicked, s9, raised, ran, search_runs,
                   calls, apply_lookups, clicks, step4_first, swallowed, trace, files>>

\* apply_to_job, lines 1015-1018: the screenshot of line 1017 comes before the
\* append of line 1018, and debug_screenshot swallows its own failure
apply_to_job_except ==
    /\ pc = "except"
    /\ \E shot \in BOOLEAN :
         /\ shot_failed' = (shot_failed \/ shot)
         /\ IF debug_screenshot(shot) = "returned"
            THEN /\ FAILED_SUBMISSIONS' = append(FAILED_SUBMISSIONS, job_id)
                 /\ UNCHANGED raised
            ELSE /\ UNCHANGED FAILED_SUBMISSIONS
                 /\ raised' = "handler"
    /\ pc' = "finally"
    /\ UNCHANGED <<inputs, SUCCESSFUL_SUBMISSIONS, INCOMPLETE_SUBMISSIONS, idx,
                   browser, locals, timed_out, caught, trace, files>>

\* apply_to_job, lines 1020-1023: the 3 seconds of line 1022, then
\* browser.close(), which is not guarded
apply_to_job_finally ==
    /\ pc = "finally"
    /\ \E close_raises \in BOOLEAN :
         /\ browser' = IF close_raises THEN browser ELSE "closed"
         /\ trace' = Append(trace, <<"grace", idx>>)
                     \o (IF close_raises THEN <<>> ELSE <<<<"close", idx>>>>)
         /\ raised' = IF close_raises THEN "close" ELSE raised
         /\ pc' = IF close_raises \/ raised = "handler" THEN "crashed" ELSE "wait"
    /\ UNCHANGED <<inputs, lists, idx, locals, swallowed, files>>

\* a loop that goes on to the next job at once
PausesNever(ids) == FALSE

\* main, line 1109: if len(JOB_IDS) > 1
Pauses(ids) == Len(ids) > 1

\* main, lines 1108-1111: the pause between applications, then the next entry
main_wait ==
    /\ pc = "wait"
    /\ idx' = idx + 1
    /\ trace' = IF Pauses(JOB_IDS) THEN Append(trace, <<"pause", idx>>) ELSE trace
    /\ pc' = "loop"
    /\ UNCHANGED <<inputs, lists, browser, locals, raised, swallowed, files>>

\* main, lines 1113-1138: the summary, then save_job_tracking_results (lines
\* 1026-1087): open(result_file, "w") truncates the file and the lines are
\* written, then shutil.copy2 makes the backup; neither call is guarded
main_finish ==
    /\ pc = "loop"
    /\ idx > Len(JOB_IDS)
    /\ \E outcome \in {"ok", "open_raises", "copy_raises"} :
         /\ job_result' = IF outcome = "open_raises" THEN job_result
                          ELSE Lines(FileLines(Now.written, Len(JOB_IDS),
                                               SUCCESSFUL_SUBMISSIONS,
                                               FAILED_SUBMISSIONS,
                                               INCOMPLETE_SUBMISSIONS))
         /\ backups' = IF outcome = "ok" THEN backups \cup {Now.stamp} ELSE backups
         /\ raised' = IF outcome = "ok" THEN raised ELSE "save"
         /\ pc' = IF outcome = "ok" THEN "finished" ELSE "crashed"
    /\ UNCHANGED <<inputs, lists, idx, browser, locals, swallowed, trace>>

Next ==
    \/ main_check
    \/ main_loop
    \/ apply_to_job_launch
    \/ step_1_login
    \/ step_2_navigate_to_jobs
    \/ step_3_search_job
    \/ step_4_click_apply
    \/ step_5_my_information
    \/ step_6_my_experience
    \/ step_7_application_questions
    \/ step_8_voluntary_disclosures
    \/ step_9_review_and_submit
    \/ apply_to_job_classify
    \/ apply_to_job_except
    \/ apply_to_job_finally
    \/ main_wait
    \/ main_finish

Spec == Init /\ [][Next]_vars

\* the single thread of control goes on while it has a next statement: every
\* page operation returns or raises within its timeout, and the delays of
\* lines 65, 1022 and 1111 end
SpecLive == Spec /\ WF_vars(Next)

-----------------------------------------------------------------------------
(* The page operations of one job, step by step, on the paths without an    *)
(* exception                                                                *)

\* a page operation: the line that performs it and what it is to the page
\*   "advance"  a click or a key press that makes the portal load a page
\*   "settle"   wait_for_page_load, or page.goto(networkidle) and its delay
\*   "query"    a lookup of a control of the page or an action on one
\*   "other"    a screenshot or a delay
Op(line, kind) == [line |-> line, kind |-> kind]
advance(line) == Op(line, "advance")
settle(line) == Op(line, "settle")
query(line) == Op(line, "query")
other(line) == Op(line, "other")

\* step_1_login, lines 80-98
step_1_login_ops ==
    <<settle(80), other(82), query(86), query(90), advance(94), settle(97),
      other(98)>>

\* step_2_navigate_to_jobs, lines 111-113
step_2_navigate_to_jobs_ops == <<settle(111), other(113)>>

\* step_3_search_job, lines 127-144: the search is submitted with Enter, the
\* job link is clicked
step_3_search_job_ops ==
    <<query(131), query(132), advance(133), settle(135), other(136),
      advance(141), settle(143), other(144)>>

\* step_4_click_apply, the loop over apply_selectors at lines 168-175 (and
\* 182-189): count() and is_visible() on every selector until one is there;
\* the click, then count() and inner_text() of the clicked button again
apply_loop_ops(line, met) ==
    IF met = "clicked" THEN <<query(line), advance(line + 1), query(line + 2)>>
    ELSE <<query(line)>>

\* step_4_click_apply, lines 197-208
use_last_ops(use_last) ==
    <<settle(197), other(198), query(204)>>
    \o (IF use_last THEN <<advance(206), settle(207), other(208)>> ELSE <<>>)

\* step_4_click_apply, lines 168-208
step_4_click_apply_ops(first, second, use_last) ==
    IF first = "clicked" THEN apply_loop_ops(170, first) \o use_last_ops(use_last)
    ELSE apply_loop_ops(170, first) \o step_3_search_job_ops
         \o apply_loop_ops(184, second)
         \o (IF second = "clicked" THEN use_last_ops(use_last) ELSE <<other(194)>>)

\* step_5_my_information, lines 226-259
step_5_my_information_ops(question, search_box, save) ==
    <<other(226), query(231)>>
    \o (IF question
        THEN <<query(236)>>
             \o (IF search_box
                 THEN <<query(238), query(239), query(241), other(242)>>
                 ELSE <<>>)
        ELSE <<>>)
    \o <<query(252)>>
    \o (IF save THEN <<advance(253), settle(254)>> ELSE <<>>)
    \o <<settle(258), other(259)>>

\* step_6_my_experience, lines 272-280
step_6_my_experience_ops == <<other(272), advance(277), settle(279), other(280)>>

\* step_7_application_questions, lines 293-847; line 666 stands for all the
\* lookups and clicks of the fill routines
step_7_application_questions_ops(on_page, save) ==
    <<other(293), query(297)>>
    \o (IF on_page THEN <<query(666)>> ELSE <<>>)
    \o <<other(839), query(841)>>
    \o (IF save THEN <<advance(842), settle(843), other(844)>> ELSE <<>>)

\* step_8_voluntary_disclosures, lines 859-927; line 872 stands for the
\* lookups and clicks of the dropdown loop
step_8_voluntary_disclosures_ops(checkbox) ==
    <<other(859), query(872), query(915)>>
    \o (IF checkbox THEN <<query(917), other(918)>> ELSE <<>>)
    \o <<other(922), advance(924), settle(926), other(927)>>

\* step_9_review_and_submit, lines 940-969
step_9_review_and_submit_ops(found) ==
    <<other(940), other(944), query(957)>>
    \o (IF found THEN <<advance(959), settle(965), other(966)>>
        ELSE <<other(969)>>)

\* apply_to_job, lines 995-1005: step n runs to its end with the page
\* operations o, having called the step functions called
Operations(n, o, called) ==
    /\ pc = StepPc[n]
    /\ pc' = IF n < Len(StepPc) THEN StepPc[n + 1] ELSE "classify"
    /\ ops' = ops \o o
    /\ ran' = ran \cup {n}
    /\ calls' = calls \o called
    /\ UNCHANGED <<configured, JOB_IDS, SUCCESSFUL_SUBMISSIONS, FAILED_SUBMISSIONS,
                   INCOMPLETE_SUBMISSIONS, idx, browser, raised,
                   submission_successful, application_completed, step4_ret,
                   s9, apply_lookups, step4_first, timed_out, shot_failed,
                   caught, trace, job_result, backups>>
    /\ UNCHANGED <<page, fpc, m, questions_filled, empty_dropdowns_found,
                   filled_count, af, s7, s8, last>>

step_1_operations ==
    /\ Operations(1, step_1_login_ops, <<1>>)
    /\ UNCHANGED <<button_clicked, submit_clicked, search_runs, clicks>>

step_2_operations ==
    /\ Operations(2, step_2_navigate_to_jobs_ops, <<2>>)
    /\ UNCHANGED <<button_clicked, submit_clicked, search_runs, clicks>>

step_3_operations ==
    /\ Operations(3, step_3_search_job_ops, <<3>>)
    /\ search_runs' = search_runs + 1
    /\ UNCHANGED <<button_clicked, submit_clicked, clicks>>

step_4_operations ==
    /\ \E first \in {"clicked", "absent"}, second \in {"clicked", "absent"},
          use_last \in BOOLEAN :
         /\ first = "clicked" => second = "absent"
         /\ (first = "absent" /\ second = "absent") => ~use_last
         /\ Operations(4, step_4_click_apply_ops(first, second, use_last),
                       IF Retries(first) THEN <<4, 3>> ELSE <<4>>)
         /\ search_runs' = search_runs + (IF Retries(first) THEN 1 ELSE 0)
         /\ button_clicked' = ("clicked" \in {first, second})
         /\ clicks' = [clicks EXCEPT !.apply =
                          IF "clicked" \in {first, second} THEN 1 ELSE 0]
    /\ UNCHANGED submit_clicked

step_5_operations ==
    /\ \E question \in BOOLEAN, search_box \in BOOLEAN, save \in BOOLEAN :
         /\ search_box => question
         /\ Operations(5, step_5_my_information_ops(question, search_box, save), <<5>>)
    /\ UNCHANGED <<button_clicked, submit_clicked, search_runs, clicks>>

step_6_operations ==
    /\ Operations(6, step_6_my_experience_ops, <<6>>)
    /\ UNCHANGED <<button_clicked, submit_clicked, search_runs, clicks>>

step_7_operations ==
    /\ \E on_page \in BOOLEAN, save \in BOOLEAN :
         Operations(7, step_7_application_questions_ops(on_page, save), <<7>>)
    /\ UNCHANGED <<button_clicked, submit_clicked, search_runs, clicks>>

step_8_operations ==
    /\ \E checkbox \in BOOLEAN :
         Operations(8, step_8_voluntary_disclosures_ops(checkbox), <<8>>)
    /\ UNCHANGED <<button_clicked, submit_clicked, search_runs, clicks>>

step_9_operations ==
    /\ \E found \in BOOLEAN :
         /\ Operations(9, step_9_review_and_submit_ops(found), <<9>>)
         /\ submit_clicked' = found
         /\ clicks' = [clicks EXCEPT !.submit = IF found THEN 1 ELSE 0]
    /\ UNCHANGED <<button_clicked, search_runs>>

\* apply_to_job has opened the page, line 991
InitOperations == InitAtStep(1, {<<>>})

NextOperations ==
    \/ step_1_operations
    \/ step_2_operations
    \/ step_3_operations
    \/ step_4_operations
    \/ step_5_operations
    \/ step_6_operations
    \/ step_7_operations
    \/ step_8_operations
    \/ step_9_operations

SpecOperations == InitOperations /\ [][NextOperations]_vars

-----------------------------------------------------------------------------
(* The retry line: a finished run writes it, the next run's loader reads it *)

MaxFailed == 3

\* job ids as the loader leaves them: not empty, no comma, no white space at
\* either end; white space inside an id stays, a line break too
RetryIds == {"101", "R-2 b", "7\n8"}

RECURSIVE ListsOver(_, _)
ListsOver(S, n) ==
    IF n = 0 THEN {<<>>}
    ELSE LET shorter == ListsOver(S, n - 1)
         IN  shorter \cup {Append(l, j) : l \in {t \in shorter : Len(t) = n - 1}, j \in S}

\* the end of the loop of main in a run whose jobs went to FAILED_SUBMISSIONS
\* and INCOMPLETE_SUBMISSIONS
InitRetry ==
    /\ configured = TRUE
    /\ FAILED_SUBMISSIONS \in ListsOver(RetryIds, MaxFailed)
    /\ INCOMPLETE_SUBMISSIONS \in {<<>>, <<"55">>}
    /\ SUCCESSFUL_SUBMISSIONS = <<>>
    /\ JOB_IDS = FAILED_SUBMISSIONS \o INCOMPLETE_SUBMISSIONS
    /\ JOB_IDS # <<>>
    /\ idx = Len(JOB_IDS) + 1
    /\ pc = "loop"
    /\ browser = "closed"
    /\ submission_successful = FALSE
    /\ application_completed = FALSE
    /\ button_clicked = FALSE
    /\ step4_ret = "pending"
    /\ submit_clicked = FALSE
    /\ s9 = "pending"
    /\ raised = "none"
    /\ ran = {}
    /\ calls = <<>>
    /\ search_runs = 0
    /\ apply_lookups = 0
    /\ clicks = NoClicks
    /\ step4_first = "pending"
    /\ timed_out = FALSE
    /\ shot_failed = FALSE
    /\ caught = FALSE
    /\ trace = <<>>
    /\ job_result = <<>>
    /\ backups = {}
    /\ page = <<>>
    /\ fpc = "idle"
    /\ m = 1
    /\ questions_filled = 0
    /\ empty_dropdowns_found = 0
    /\ filled_count = 0
    /\ af = Idle
    /\ s7 = NotRun7
    /\ s8 = NotRun8
    /\ ops = <<>>
    /\ last = NoCall(<<>>)

\* lines 11-26 in the next run, with the JOB_IDS line of job_result.txt copied
\* to .env as the file tells the user to
load_retry_line ==
    /\ pc = "finished"
    /\ ValuesOf("JOB_IDS", job_result) # <<>>
    /\ JOB_IDS' = load_job_ids(ValuesOf("JOB_IDS", job_result)[1])
    /\ SUCCESSFUL_SUBMISSIONS' = <<>>
    /\ FAILED_SUBMISSIONS' = <<>>
    /\ INCOMPLETE_SUBMISSIONS' = <<>>
    /\ idx' = 1
    /\ pc' = "main"
    /\ UNCHANGED <<configured, form_vars, browser, locals, raised, swallowed,
                   trace, files>>

NextRetry ==
    \/ main_finish
    \/ load_retry_line

SpecRetry == InitRetry /\ [][NextRetry]_vars

-----------------------------------------------------------------------------
(* Properties of the batch driver, checked under Spec *)

Last(s) == s[Len(s)]

Occurrences(j) == Count(j, SUCCESSFUL_SUBMISSIONS) + Count(j, INCOMPLETE_SUBMISSIONS)
                  + Count(j, FAILED_SUBMISSIONS)

\* C1: when main has finished the batch normally, every job id of JOB_IDS
\* (lists that repeat an id included) occurs exactly once in total across the
\* three result lists.
C1_EachJobIdExactlyOnce ==
    pc = "finished" =>
        \A k \in 1..Len(JOB_IDS) : Occurrences(JOB_IDS[k]) = 1

\* C6: if step_4_click_apply found no Apply/Continue control on the first
\* attempt and none after its single retry (it returned False), none of the
\* steps 5 to 9 is executed for that job.
C6_NoLaterStepAfterApplyAbsent ==
    step4_ret = "False" => ran \cap (5..9) = {}

\* C7: if the Apply/Continue control was absent on both attempts of step 4,
\* the job id is appended to FAILED_SUBMISSIONS and to neither of the other
\* two lists, whatever the later pages contain.
C7_ApplyAbsentIsRecordedFailed ==
    [][(step4_ret = "False" /\ lists' # lists) =>
          /\ FAILED_SUBMISSIONS' = Append(FAILED_SUBMISSIONS, job_id)
          /\ SUCCESSFUL_SUBMISSIONS' = SUCCESSFUL_SUBMISSIONS
          /\ INCOMPLETE_SUBMISSIONS' = INCOMPLETE_SUBMISSIONS]_vars

\* C8: if steps 1 to 8 completed without an exception escaping and step 9
\* found no visible control for any submit selector, step 9 returns (it does
\* not raise), the job id is appended to INCOMPLETE_SUBMISSIONS and to no other
\* list, and nothing is appended for the job afterwards.
C8_NoSubmitControlIsIncomplete ==
    [][/\ (pc = "step9" /\ s9' = "none_visible") => pc' = "classify"
       /\ (pc = "classify" /\ s9 = "none_visible") =>
             /\ INCOMPLETE_SUBMISSIONS' = Append(INCOMPLETE_SUBMISSIONS, job_id)
             /\ SUCCESSFUL_SUBMISSIONS' = SUCCESSFUL_SUBMISSIONS
             /\ FAILED_SUBMISSIONS' = FAILED_SUBMISSIONS
       /\ (pc \in {"finally", "wait"} /\ s9 = "none_visible") => lists' = lists]_vars

C8_Witness ==
    /\ pc = "finally"
    /\ s9 = "none_visible"
    /\ ran = 1..9
    /\ raised = "none"
    /\ INCOMPLETE_SUBMISSIONS # <<>>
    /\ Last(INCOMPLETE_SUBMISSIONS) = job_id

\* C9: a job id is appended to SUCCESSFUL_SUBMISSIONS if and only if step 9
\* clicked a submit control in that job's session: an append to the list
\* happens only after the click and appends this job's id, and once the click
\* has happened the job is appended there and never to FAILED_SUBMISSIONS or
\* INCOMPLETE_SUBMISSIONS.
C9_SuccessIffSubmitClicked ==
    [][/\ SUCCESSFUL_SUBMISSIONS' # SUCCESSFUL_SUBMISSIONS =>
             /\ submit_clicked
             /\ SUCCESSFUL_SUBMISSIONS' = Append(SUCCESSFUL_SUBMISSIONS, job_id)
       /\ (~submit_clicked /\ submit_clicked') => pc' = "classify"
       /\ (submit_clicked /\ pc = "classify") =>
             SUCCESSFUL_SUBMISSIONS' = Append(SUCCESSFUL_SUBMISSIONS, job_id)
       /\ submit_clicked =>
             /\ FAILED_SUBMISSIONS' = FAILED_SUBMISSIONS
             /\ INCOMPLETE_SUBMISSIONS' = INCOMPLETE_SUBMISSIONS]_vars

C9_Witness ==
    /\ pc = "finally"
    /\ submit_clicked
    /\ s9 = "clicked"
    /\ SUCCESSFUL_SUBMISSIONS # <<>>
    /\ Last(SUCCESSFUL_SUBMISSIONS) = job_id

\* C10: when an exception is raised anywhere between the opening of a job's
\* browser session and its closing, the job is recorded FAILED and main goes
\* on to the later entries of JOB_IDS: the batch is not stopped.
C10_JobFailureNeverStopsBatch ==
    raised \in {"new_page", "step"} =>
        /\ pc # "crashed"
        /\ pc \in {"finally", "wait"} =>
              FAILED_SUBMISSIONS # <<>> /\ Last(FAILED_SUBMISSIONS) = job_id


-----------------------------------------------------------------------------
(* Properties of sessions, files and error handling, checked under Spec *)

\* what the trace holds of the session of job k
JobEvents(k) == SelectSeq(trace, LAMBDA e : e[2] = k /\ e[1] # "pause")

\* C11: a call of apply_to_job that has opened a browser session closes it
\* exactly once before the call ends, on every path, and the close comes
\* after the 3-second delay.
C11_SessionClosedOnceAfterGrace ==
    (pc \in {"wait", "crashed"} /\ idx <= Len(JOB_IDS) /\ raised # "launch") =>
        JobEvents(idx) = << <<"open", idx>>, <<"grace", idx>>, <<"close", idx>> >>

\* job_result.txt was written by this run and holds a line with this id
Recorded(id) ==
    /\ Len(job_result) >= 2
    /\ job_result[2] = "# Generated on: " \o Now.written
    /\ \E i \in 1..Len(job_result) : job_result[i] = id

\* C12: if the process crashes while handling job k, job_result.txt records
\* every job handled before k.
C12_CrashKeepsEarlierJobsOnFile ==
    (pc = "crashed" /\ idx <= Len(JOB_IDS)) =>
        \A k \in 1..(idx - 1) : Recorded(JOB_IDS[k])

\* C13: if a setting is missing or JOB_IDS is empty, main returns at once: no
\* browser session is opened, apply_to_job is not called, nothing is recorded
\* or written, and nothing happens afterwards.
C13_MissingConfigurationOpensNothing ==
    [][/\ (pc = "main" /\ (~configured \/ JOB_IDS = <<>>)) =>
             /\ pc' = "returned"
             /\ trace' = <<>>
             /\ browser' = "none"
             /\ ran' = {}
             /\ lists' = lists
             /\ files' = files
       /\ pc # "returned"]_vars

C13_Witness ==
    /\ pc = "returned"
    /\ ~configured
    /\ JOB_IDS # <<>>
    /\ trace = <<>>

OneLine(id) == \A i \in 1..Len(id) : Char(id, i) # "\n"

C15_EveryRunRewritesTheFile ==
    pc \in {"finished", "crashed"} =>
        /\ job_result = Lines(FileLines(Now.written, Len(JOB_IDS),
                                        SUCCESSFUL_SUBMISSIONS, FAILED_SUBMISSIONS,
                                        INCOMPLETE_SUBMISSIONS))
        /\ Now.stamp \in backups

\* the sessions open after the first i events
OpenAfter(i) ==
    Cardinality({j \in 1..i : trace[j][1] = "open"})
    - Cardinality({j \in 1..i : trace[j][1] = "close"})

\* C16: the sessions are opened in JOB_IDS order, the session of job k + 1
\* only after the session of job k has been closed and the 10-second pause
\* has been taken, and at most one session is open at any time.
C16_OneSessionAtATimeInOrder ==
    \A i \in 1..Len(trace) :
        /\ OpenAfter(i) \in {0, 1}
        /\ trace[i][1] = "open" =>
              \E k \in {trace[i][2]} :
                  /\ k = Cardinality({j \in 1..i : trace[j][1] = "open"})
                  /\ k <= Len(JOB_IDS)
                  /\ k = 1 => i = 1
                  /\ k > 1 => /\ i > 2
                              /\ trace[i - 1] = <<"pause", k - 1>>
                              /\ trace[i - 2] = <<"close", k - 1>>

C16_Witness ==
    /\ trace # <<>>
    /\ Last(trace) = <<"open", 2>>
    /\ browser = "open"

\* C17: a timeout of a wait for network idle, the navigations of steps 1 and
\* 2 included, never makes the job FAILED.
C17_SettleTimeoutIsNeverFatal ==
    [][FAILED_SUBMISSIONS' # FAILED_SUBMISSIONS => raised # "timeout"]_vars

\* C18: step 4 runs step_3_search_job again at most once, and only when its
\* first pass over the Apply selectors found no control; step 3 runs at most
\* twice per job and the Apply lookup at most twice.
C18_SingleRetryOfTheSearch ==
    [][/\ pc = "step4" =>
             /\ search_runs' \in {search_runs, search_runs + 1}
             /\ search_runs' = search_runs + 1 => step4_first' = "absent"
             /\ apply_lookups' \in {1, 2}
             /\ apply_lookups' = 2 => search_runs' = search_runs + 1
       /\ pc # "step4" => apply_lookups' \in {0, apply_lookups}
       /\ search_runs' <= 2]_vars

C18_Witness ==
    /\ pc = "step5"
    /\ step4_first = "absent"
    /\ search_runs = 2
    /\ apply_lookups = 2
    /\ button_clicked

\* C19: a screenshot that cannot be written never raises out of
\* debug_screenshot: the step goes on unless another operation raises, the
\* job-level handler still records the job FAILED, and a job that reaches the
\* classification is classified by its submit click alone.
C19_ScreenshotFailureIsSwallowed ==
    [][/\ raised' \notin {"screenshot", "handler"}
       /\ (shot_failed' /\ raised' = raised /\ pc \notin {"except", "finally"}) =>
             pc' \notin {"except", "crashed"}
       /\ pc = "except" => FAILED_SUBMISSIONS' = Append(FAILED_SUBMISSIONS, job_id)
       /\ (pc = "classify" /\ shot_failed) =>
             IF submit_clicked
             THEN SUCCESSFUL_SUBMISSIONS' = Append(SUCCESSFUL_SUBMISSIONS, job_id)
             ELSE INCOMPLETE_SUBMISSIONS' = Append(INCOMPLETE_SUBMISSIONS, job_id)]_vars

C19_Witness ==
    /\ pc = "finally"
    /\ shot_failed
    /\ submit_clicked
    /\ SUCCESSFUL_SUBMISSIONS # <<>>
    /\ Last(SUCCESSFUL_SUBMISSIONS) = job_id

\* C20: when a page operation has raised during a step of the job, the job is
\* recorded FAILED: no step catches the exception itself and lets the job go
\* on to SUCCESSFUL_SUBMISSIONS or INCOMPLETE_SUBMISSIONS.
C20_EveryExceptionReachesTheJobHandler ==
    [][(caught /\ lists' # lists) =>
          FAILED_SUBMISSIONS' = Append(FAILED_SUBMISSIONS, job_id)]_vars

-----------------------------------------------------------------------------
(* Properties of step 7, checked under SpecForm *)

\* the displayed text of dropdown d is an answer, not a placeholder
ShowsAnswer(pg, d) ==
    \E shown \in {lower(inner_text(pg, d))} :
        /\ Len(strip(shown)) > 0
        /\ \A k \in 1..Len(empty_indicators) :
              Len(empty_indicators[k]) > 0 => ~Contains(empty_indicators[k], shown)

FillCall == last'.op = "fill" /\ m' = m + 1

\* C2: if the control fill_question_by_pattern locates for a question already
\* displays a non-placeholder answer, the call returns True without clicking
\* the control and leaves the page as it is, so that a second call does the
\* same.
C2_AnsweredControlIsLeftAlone ==
    [][(FillCall /\ last'.located # <<>> /\ ShowsAnswer(page, last'.located[1])) =>
          /\ last'.ret
          /\ last'.opened = <<>>
          /\ page' = page]_vars

\* C3: the control fill_question_by_pattern opens belongs to the question
\* whose text matched the pattern; it never opens the control of another
\* question of the page.
C3_OpensOnlyTheMatchedQuestionsControl ==
    last.op = "fill" =>
        \A i \in 1..Len(last.opened) : page[last.opened[i]].q = page[last.question].q

\* the words of the answer that some option of dropdown d contains
WordsMatched(pg, d, answer_text, minlen) ==
    {i \in 1..Len(split(answer_text)) :
        /\ Len(split(answer_text)[i]) > minlen
        /\ FirstOption(pg, d, split(answer_text)[i]) # 0}

\* C4 as claimed: when the call has opened a control, no option matches the
\* full answer text and an option matches a word of the answer, the call
\* selects that option and returns True; it never closes the control and
\* returns False.
C4_AnyWordOfTheAnswerIsMatched ==
    [][FillCall =>
          \A i \in 1..Len(last'.located) :
              (/\ last'.kinds[i] \notin {"filled", "raised_open"}
               /\ FirstOption(page, last'.located[i], last'.answer) = 0
               /\ WordsMatched(page, last'.located[i], last'.answer, 0) # {})
              => /\ last'.kinds[i] = "partial"
                 /\ last'.ret]_vars

\* C4, amended: when the call has opened a control, no option and no li or
\* div element of the page contains the full answer text, and an option
\* contains a word of the answer that is longer than 3 characters, the call
\* clicks the first option that contains the first such word; unless that
\* click raises, the dropdown then shows that option and the call returns
\* True.  It never presses Escape and returns False in that case.
C4_SignificantWordIsMatched ==
    [][FillCall =>
          \A i \in 1..Len(last'.located) :
              \E d \in {last'.located[i]}, words \in {split(last'.answer)} :
                  (/\ last'.kinds[i] \notin {"filled", "raised_open"}
                   /\ FirstOption(page, d, last'.answer) = 0
                   /\ ~ \E n \in ElemIds(page) :
                          /\ page[n].tag \in {"li", "div"}
                          /\ HasText(page, n, last'.answer)
                   /\ WordsMatched(page, d, last'.answer, 3) # {})
                  => /\ last'.kinds[i] \in {"partial", "raised_pick"}
                     /\ last'.kinds[i] = "partial" =>
                           \E o \in {FirstOption(page, d,
                                        words[Min(WordsMatched(page, d, last'.answer, 3))])} :
                               /\ last'.ret
                               /\ i = Len(last'.located)
                               /\ last'.picked = <<<<d, page[d].options[o]>>>>
                               /\ page'[d].text = page[d].options[o]]_vars

C4_Witness ==
    /\ last.op = "fill"
    /\ last.ret
    /\ last.kinds # <<>>
    /\ last.kinds[Len(last.kinds)] = "partial"
    /\ last.picked # <<>>

\* lines 761-764, as the claim reads them
C5_Keywords == {"uniformed services", "active duty", "guard", "reserve",
                "military", "hiring program", "service members"}

C5_Surrounded(pg, d) ==
    \E level \in 1..4 :
        /\ Ancestor(pg, d, level) # 0
        /\ \E t \in C5_Keywords :
              Contains(t, lower(inner_text(pg, Ancestor(pg, d, level))))

\* C5: the auto-fill pass opens and changes only dropdowns that have, within
\* four ancestor levels, a container whose text holds a military keyword, and
\* what it selects there is an option containing "No"; every other element of
\* the page is left as it is.
C5_AutoFillOnlyNearMilitaryText ==
    [][fpc = "autofill" =>
          /\ \A d \in ElemIds(page) :
                page'[d] # page[d] =>
                    /\ C5_Surrounded(page, d)
                    /\ Contains("no", lower(page'[d].text))
                    /\ page'[d] = [page[d] EXCEPT !.text = page'[d].text]
          /\ last'.op = "autofill" =>
                \A i \in 1..Len(last'.opened) : C5_Surrounded(page, last'.opened[i])
          /\ Len(page') = Len(page)]_vars

C5_Witness ==
    /\ fpc = "autofill"
    /\ last.op = "autofill"
    /\ last.picked # <<>>
    /\ \E d \in Dropdowns(page) : ~C5_Surrounded(page, d)

\* C23: is_dropdown_filled returns True exactly for a control whose displayed
\* text is no placeholder and which either has a value attribute that is not
\* empty and not "0" or "-1", or displays more than 15 characters.  The
\* function is applied to the first control a call of fill_question_by_pattern
\* locates.
C23_FilledIffAnswerWithValueOrLongText ==
    [][(FillCall /\ last'.located # <<>>) =>
          \E d \in {last'.located[1]} :
              (last'.kinds[1] = "filled") <=>
                  /\ ShowsAnswer(page, d)
                  /\ \/ Len(strip(page[d].value)) > 0 /\ page[d].value \notin {"0", "-1"}
                     \/ Len(strip(inner_text(page, d))) > 15]_vars

\* C24: the sweep counts exactly the visible dropdowns of the page that hold
\* no answer, each once.
C24_SweepCountsTheUnfilledControls ==
    [][fpc = "scan" =>
          empty_dropdowns_found' =
              Cardinality({d \in Dropdowns(page) :
                              page[d].visible /\ ~ShowsAnswer(page, d)})]_vars

\* question q of the page is a military question: the text of its label or
\* legend matches one of the patterns of handle_military_question
C26_MilitaryQuestion(pg, q) ==
    \E n \in ElemIds(pg) :
        /\ pg[n].q = q
        /\ pg[n].tag \in {"label", "legend"}
        /\ MatchingPatterns(pg[n].text) # {}

\* C26: handle_military_question opens and changes only dropdowns of a
\* question whose text matched a military pattern; the dropdown of any other
\* question stays as it is.
C26_MilitaryHandlerKeepsToItsQuestion ==
    [][fpc = "military" =>
          /\ \A i \in 1..Len(last'.opened) :
                C26_MilitaryQuestion(page, page[last'.opened[i]].q)
          /\ \A d \in ElemIds(page) :
                page'[d] # page[d] => C26_MilitaryQuestion(page, page[d].q)]_vars

\* the first position of the level and selector loops that yields a visible
\* control; 0 if none does
C30_FirstControl(pg, question_element) ==
    First({pos \in 1..(3 * 6) : ControlAt(pg, question_element, pos) # 0})

\* C30: a call of fill_question_by_pattern that found its question opens no
\* control but the first visible one of ancestor levels 1 to 3 in increasing
\* order, and does not go on to a higher level after that; if no level yields
\* a visible control it returns False and opens nothing.
C30_OpensAtMostTheFirstControl ==
    [][(FillCall /\ last'.question # 0) =>
          \E pos \in {C30_FirstControl(page, last'.question)} :
              /\ Cardinality({last'.opened[i] : i \in 1..Len(last'.opened)}) <= 1
              /\ pos = 0 => (~last'.ret /\ last'.opened = <<>>)
              /\ \A i \in 1..Len(last'.opened) :
                    pos # 0 /\ last'.opened[i] = ControlAt(page, last'.question, pos)]_vars

\* C31: step 7 attempts each of the ten question mappings exactly once, in
\* their declaration order, and scrolls after a mapping if and only if
\* fill_question_by_pattern returned True for it.
C31_TenMappingsOnceInOrder ==
    [][/\ fpc = "fill" => /\ m' = m + 1
                          /\ last'.pattern = question_mappings[m][1]
                          /\ last'.answer = question_mappings[m][2]
                          /\ last'.scrolled <=> last'.ret
       /\ fpc # "fill" => m' = m
       /\ fpc' = "done" => m' = Len(question_mappings) + 1]_vars

\* C31, amended: on the Application Questions page step 7 attempts the
\* mappings in their declaration order, each at most once, and scrolls after
\* a mapping if and only if fill_question_by_pattern returned True for it;
\* when the step ends all ten have been attempted unless a scroll has raised.
\* On another page none is attempted.
C31_MappingsInOrderUntilAScrollRaises ==
    [][/\ fpc = "fill" => /\ s7.on_page
                          /\ m' = m + 1
                          /\ last'.pattern = question_mappings[m][1]
                          /\ last'.answer = question_mappings[m][2]
                          /\ last'.scrolled <=> last'.ret
       /\ fpc # "fill" => m' = m
       /\ fpc' \notin {"begin", "fill"} =>
             m' = IF ~s7'.on_page THEN 1
                  ELSE IF fpc = "fill" /\ raised' # "none" THEN m + 1
                  ELSE Len(question_mappings) + 1
       /\ (fpc = "fill" /\ raised' # "none") => last'.scrolled]_vars

\* all ten mappings have been attempted, the last one filled and scrolled
C31_Witness ==
    /\ fpc = "military"
    /\ m = Len(question_mappings) + 1
    /\ last.op = "fill"
    /\ last.pattern = question_mappings[Len(question_mappings)][1]
    /\ last.ret
    /\ last.scrolled
    /\ raised = "none"

-----------------------------------------------------------------------------
(* Properties of the option tiers and the weak-match handler, checked under *)
(* SpecOptions                                                              *)

\* C27: an option that fill_question_by_pattern selects in the exact tier
\* has the mapped answer as its text (letter case apart); an option that
\* only contains the answer is not selected in this tier.
C27_ExactTierSelectsTheAnswerItself ==
    [][FillCall =>
          \A i \in 1..Len(last'.kinds) :
              last'.kinds[i] = "selected" =>
                  lower(strip(last'.picked[1][2])) = lower(strip(last'.answer))]_vars

\* the first word of the answer that is longer than 3 characters; "" if none
C28_FirstSignificantWord(answer_text) ==
    LET words == split(answer_text)
        long == {i \in 1..Len(words) : Len(words[i]) > 3}
    IN  IF long = {} THEN "" ELSE words[Min(long)]

\* C28: the partial tier picks an option only for an answer of more than one
\* word, and the option it picks contains the first significant word of the
\* answer: no later word of the answer decides the pick.
C28_PartialTierUsesTheFirstSignificantWord ==
    [][FillCall =>
          \A i \in 1..Len(last'.kinds) :
              last'.kinds[i] = "partial" =>
                  /\ Len(split(last'.answer)) > 1
                  /\ C28_FirstSignificantWord(last'.answer) # ""
                  /\ Contains(lower(C28_FirstSignificantWord(last'.answer)),
                              lower(last'.picked[1][2]))]_vars

\* the first visible dropdown among the following siblings of element e that
\* holds no answer; 0 if there is none
C29_FirstUnfilledBelow(pg, e) ==
    First({d \in Dropdowns(pg) : /\ pg[d].parent = pg[e].parent
                                 /\ d > e
                                 /\ pg[d].visible
                                 /\ ~ShowsAnswer(pg, d)})

\* C29: for a matched text that is no form question the call selects "No" in
\* the first following-sibling dropdown that holds no answer, and it leaves
\* every following-sibling dropdown that holds an answer closed and as it is.
C29_WeakMatchFillsTheFirstUnfilledWithNo ==
    [][FillCall =>
          \A j \in 1..Len(last'.weak) :
              \E e \in {last'.weak[j]} :
                  /\ \E d \in {C29_FirstUnfilledBelow(page, e)} :
                        d # 0 => page'[d].text = "No"
                  /\ \A d \in Dropdowns(page) :
                        (page[d].parent = page[e].parent /\ d > e /\ ShowsAnswer(page, d))
                        => /\ page'[d] = page[d]
                           /\ \A i \in 1..Len(last'.opened) : last'.opened[i] # d]_vars

-----------------------------------------------------------------------------
(* Properties of step 8, checked under SpecDisclosures *)

\* C25: a pass of the step-8 loop that has opened a dropdown and ends without
\* having selected an option, an exception included, has pressed Escape to
\* close it.
C25_OpenedAndNotSelectedIsClosed ==
    [][(last'.opened # <<>> /\ last'.picked = <<>>) => last'.escapes > 0]_vars

\* C35: the control that receives the second answer of step 8 (gender) is
\* never the control that received the first answer (ethnicity).
C35_TwoAnswersToTwoControls ==
    [][(fpc = "voluntary" /\ s8.i = 1 /\ s8'.i = 2) =>
          last'.located # last.located]_vars

-----------------------------------------------------------------------------
(* Properties of the step sequence, checked under Spec and SpecForm *)

\* the first n steps in order, with the search of the retry after step 4 or
\* without it
StepsUpTo(n, retried) ==
    IF retried /\ n >= 4
    THEN <<1, 2, 3, 4, 3>> \o [i \in 1..(n - 4) |-> i + 4]
    ELSE [i \in 1..n |-> i]

\* C21: for each job the steps are called in the order 1, 2, ..., 9, each at
\* most once apart from the one call of the search inside step 4; once an
\* exception has left a step no further step is called for the job, the job
\* is appended to FAILED_SUBMISSIONS and nothing else is recorded for it.
C21_StepsInOrderAndFailedAbsorbing ==
    [][/\ \E n \in 0..9, retried \in BOOLEAN : calls' = StepsUpTo(n, retried)
       /\ Len(calls') > Len(calls) => raised = "none"
       /\ (raised # "none" /\ pc \in {"except", "finally", "wait"}) =>
             /\ calls' = calls
             /\ SUCCESSFUL_SUBMISSIONS' = SUCCESSFUL_SUBMISSIONS
             /\ INCOMPLETE_SUBMISSIONS' = INCOMPLETE_SUBMISSIONS
             /\ FAILED_SUBMISSIONS' = IF pc = "except"
                                      THEN Append(FAILED_SUBMISSIONS, job_id)
                                      ELSE FAILED_SUBMISSIONS]_vars

C21_Witness ==
    /\ pc = "wait"
    /\ raised = "step"
    /\ calls = <<1, 2, 3, 4, 3, 5, 6>>
    /\ FAILED_SUBMISSIONS # <<>>
    /\ Last(FAILED_SUBMISSIONS) = job_id
    /\ SUCCESSFUL_SUBMISSIONS = <<>>
    /\ INCOMPLETE_SUBMISSIONS = <<>>

\* C22: step 8 is started only if step 7 has confirmed that it is on the
\* Application Questions page and has clicked Save and Continue.
C22_Step8OnlyAfterStep7Ok ==
    pc = "step8" => (s7.on_page /\ s7.saved)

-----------------------------------------------------------------------------
(* Properties of the result lists and of the clicks of a job, checked under *)
(* Spec                                                                     *)

Appended ==
    Len(SUCCESSFUL_SUBMISSIONS) + Len(INCOMPLETE_SUBMISSIONS) + Len(FAILED_SUBMISSIONS)

AppendedOrKept(before, after) ==
    after = before \/ after = Append(before, job_id)

\* C33: every call of apply_to_job that returns has appended its job id to
\* exactly one of the three result lists, exactly once; the lists only grow by
\* an append at the end, no entry is removed, rewritten or moved.
C33_ReturnedCallAppendedOnce ==
    [][/\ AppendedOrKept(SUCCESSFUL_SUBMISSIONS, SUCCESSFUL_SUBMISSIONS')
       /\ AppendedOrKept(INCOMPLETE_SUBMISSIONS, INCOMPLETE_SUBMISSIONS')
       /\ AppendedOrKept(FAILED_SUBMISSIONS, FAILED_SUBMISSIONS')
       /\ Appended' <= Appended + 1
       /\ pc = "launch" => Appended = idx - 1
       /\ (pc = "finally" /\ pc' = "wait") => Appended' = idx]_vars

\* the second call has returned; the two jobs are in different lists
C33_Witness ==
    /\ pc = "wait"
    /\ idx = 2
    /\ SUCCESSFUL_SUBMISSIONS = <<JOB_IDS[1]>>
    /\ FAILED_SUBMISSIONS = <<JOB_IDS[2]>>
    /\ INCOMPLETE_SUBMISSIONS = <<>>

\* C34: in one job at most one Apply/Continue control and at most one submit
\* control is clicked, the retry of step 4 included.
C34_AtMostOneApplyAndOneSubmitClick ==
    /\ clicks.apply <= 1
    /\ clicks.submit <= 1

\* a job whose Apply control was clicked after the retry of the search and
\* whose submit control was clicked
C34_Witness ==
    /\ pc = "wait"
    /\ search_runs = 2
    /\ apply_lookups = 2
    /\ clicks = [apply |-> 1, submit |-> 1]

\* C36: whenever save_job_tracking_results runs, len(JOB_IDS) is the sum of
\* the lengths of the three result lists, and the 'Total jobs processed' line
\* it writes carries that sum.
C36_TotalIsTheSumOfTheThreeCounts ==
    [][(pc = "loop" /\ pc' \in {"finished", "crashed"}) =>
          /\ Len(JOB_IDS) = Appended
          /\ job_result' # job_result =>
                /\ job_result'[5] = "# Total jobs processed: " \o str(Appended)
                /\ job_result'[6] =
                      "# Successful submissions: " \o str(Len(SUCCESSFUL_SUBMISSIONS))
                /\ job_result'[7] =
                      "# Incomplete submissions: " \o str(Len(INCOMPLETE_SUBMISSIONS))
                /\ job_result'[8] =
                      "# Failed applications: " \o str(Len(FAILED_SUBMISSIONS))]_vars

\* the file of a run of two jobs, one failed and one incomplete
C36_Witness ==
    /\ pc = "finished"
    /\ Len(JOB_IDS) = 2
    /\ Len(FAILED_SUBMISSIONS) = 1
    /\ Len(INCOMPLETE_SUBMISSIONS) = 1
    /\ job_result[5] = "# Total jobs processed: 2"
    /\ job_result[7] = "# Incomplete submissions: 1"
    /\ job_result[8] = "# Failed applications: 1"

\* C37: every started job eventually reaches a classification with its
\* session closed, and main eventually finishes the batch and writes the
\* results file (or returns at once for want of a setting or of job ids).
C37_EveryJobClassifiedAndBatchFinished ==
    /\ (pc = "launch") ~> (pc = "wait" /\ browser = "closed" /\ Appended = idx)
    /\ <>(pc \in {"finished", "returned"})

-----------------------------------------------------------------------------
(* Properties of the page operations, checked under SpecOperations *)

\* C32: between every page-advancing action and the next query of a page
\* control (the next advancing click included) a settle wait is performed.
C32_SettleBeforeTheNextQuery ==
    \A i \in 1..Len(ops) :
        ops[i].kind = "advance" =>
            \A j \in (i + 1)..Len(ops) :
                ops[j].kind \in {"query", "advance"} =>
                    \E k \in (i + 1)..(j - 1) : ops[k].kind = "settle"

=============================================================================
